---- MODULE Spec2Model ----
(***************************************************************************)
(* Virtual terminal manager of breezybox (src/vterm.c, tiered variant,     *)
(* lines 1-953, with the declarations of vterm.h in src/unnamed/part_000). *)
(*                                                                         *)
(* Bytes are numbers 0..255.  A buffer of cells is a function from the     *)
(* row-major index 0..ROWS*COLS-1 to a cell.  The five buffers of the      *)
(* program (s_iram_buffer and one storage_cells block per session) live in *)
(* `mem`, indexed by a buffer id, so that a session's `cells` pointer is a *)
(* buffer id and aliasing is modelled as the code has it.                  *)
(***************************************************************************)
EXTENDS Integers, Sequences, FiniteSets, TLC

VARIABLES
    mem,          \* buffer id -> grid: s_iram_buffer and each storage_cells block
    s_vterms,     \* session -> vterm_t
    s_active_vt,  \* index of the active session
    fault,        \* "none", "hang" (a call spins forever), "oob" (cell access outside a
                  \* buffer), "undefined" (an overflow did not give the usual result)
    s_esc_buf,    \* hotkey scratch buffer; s_esc_len is its length
    s_esc_start,  \* tick at which hotkey buffering started
    s_task_map,   \* slot -> (task, vt_id): the task bindings; task NULL marks a free slot
    s_on_switch_cb, \* NULL, or the function registered by vterm_set_switch_callback
    s_escape,     \* non-tiered variant only: s_escape_state and s_escape_buf, one parser
                  \* state for all sessions; s_escape_len is the length of buf
    tick,         \* xTaskGetTickCount()
    ctx,          \* execution context -> program counter and locals of its current call
    ref,          \* reference world: the same calls, never switched
    call,         \* the last API call made
    kbd,          \* the key sequence being delivered by the input transport
    budget        \* remaining calls of the scenario

vars == <<mem, s_vterms, s_active_vt, fault, s_esc_buf, s_esc_start, s_task_map,
          s_on_switch_cb, s_escape, tick,
          ctx, ref, call, kbd, budget>>

(***************************************************************************)
(* Program constants                                                       *)
(***************************************************************************)
VTERM_COUNT == 4
VTERM_COLS == 9
VTERM_ROWS == 3
VTERM_BLACK == 0
VTERM_WHITE == 7
VTERM_BRIGHT == 8
INPUT_QUEUE_SIZE == 64
ESCAPE_BUF_SIZE == 32
S_ESC_BUF_SIZE == 16
HOTKEY_TIMEOUT_TICKS == 2
TAB_WIDTH == 8
MAX_TASKS == 8
NULL == 0
ESC == 27

INT_MAX == 32767 * 65536 + 65535
INT_MIN == (-INT_MAX) - 1

VTs == 0 .. (VTERM_COUNT - 1)
IRAM == VTERM_COUNT                 \* buffer id of s_iram_buffer; storage of session i is buffer i
BufIds == 0 .. VTERM_COUNT
GridIdx == 0 .. (VTERM_ROWS * VTERM_COLS - 1)

VTERM_ATTR(fg, bg) == ((bg * 16) + (fg % 16)) % 256
VTERM_ATTR_FG(attr) == attr % 16
VTERM_ATTR_BG(attr) == (attr \div 16) % 16
VTERM_DEFAULT_ATTR == VTERM_ATTR(VTERM_WHITE, VTERM_BLACK)

Blank == [ch |-> 32, attr |-> VTERM_DEFAULT_ATTR]
BlankGrid == [i \in GridIdx |-> Blank]

(***************************************************************************)
(* A world is the part of the program state the interpreter works on.      *)
(***************************************************************************)
\* ovf: the call being interpreted has overflowed an int (undefined in C)
World == [mem |-> mem, vts |-> s_vterms, active |-> s_active_vt, fault |-> fault,
          ovf |-> FALSE]

\* a + b leaves the int range
AddOverflows(a, b) == (b > 0 /\ a > INT_MAX - b) \/ (b < 0 /\ a < INT_MIN - b)

\* int addition as the target's add instruction does it (32-bit two's
\* complement, wrapping); where it wraps the caller also records ovf
Add32(a, b) ==
    IF b > 0 /\ a > INT_MAX - b THEN INT_MIN + ((a - (INT_MAX - b)) - 1)
    ELSE IF b < 0 /\ a < INT_MIN - b THEN INT_MAX - (((INT_MIN - b) - a) - 1)
    ELSE a + b

InGrid(x, y) == x >= 0 /\ x < VTERM_COLS /\ y >= 0 /\ y < VTERM_ROWS

\* &cells[y * VTERM_COLS + x]; -1 stands for every address outside the buffer
CellPtr(x, y) == IF InGrid(x, y) THEN y * VTERM_COLS + x ELSE -1

\* a store through a cell pointer; outside the buffer it is undefined behaviour
StoreCell(W, b, i, cell) ==
    IF i \in GridIdx THEN [W EXCEPT !.mem[b][i] = cell]
    ELSE [W EXCEPT !.fault = "oob"]

\* mutant: rows are never cleared
ClearRows_none(g, from, n) == g

\* rows [from, from+n) of buffer b become blank with the default attribute
ClearRows(g, from, n) ==
    [i \in GridIdx |-> IF i >= from * VTERM_COLS /\ i < (from + n) * VTERM_COLS
                       THEN Blank ELSE g[i]]

\* mutant: the last row is cleared but the rows above do not move up
vterm_scroll_no_shift(W, id) ==
    [W EXCEPT !.mem[W.vts[id].cells] = ClearRows(@, VTERM_ROWS - 1, 1),
              !.vts[id].cursor_y = VTERM_ROWS - 1]

vterm_scroll(W, id) ==
    LET b == W.vts[id].cells
        old == W.mem[b]
        moved == [i \in GridIdx |->
                    IF i < (VTERM_ROWS - 1) * VTERM_COLS THEN old[i + VTERM_COLS] ELSE old[i]]
    IN [W EXCEPT !.mem[b] = ClearRows(moved, VTERM_ROWS - 1, 1),
                 !.vts[id].cursor_y = VTERM_ROWS - 1]

\* the wrap shared by '\n', '\t' and printable bytes: cursor_y++, scroll at the bottom
NextLine(W, id) ==
    IF W.vts[id].cursor_y + 1 >= VTERM_ROWS
    THEN vterm_scroll([W EXCEPT !.vts[id].cursor_x = 0, !.vts[id].cursor_y = @ + 1], id)
    ELSE [W EXCEPT !.vts[id].cursor_x = 0, !.vts[id].cursor_y = @ + 1]

\* if (cursor_x >= VTERM_COLS) wrap; a faulted store ends the run before it
WrapAtEnd(W, id) ==
    IF W.fault = "none" /\ W.vts[id].cursor_x >= VTERM_COLS THEN NextLine(W, id) ELSE W

\* mutant: a tab stores one space, as a printable character does
tab_loop_one(W, id, cell) ==
    [StoreCell(W, W.vts[id].cells, cell, [ch |-> 32, attr |-> W.vts[id].current_attr])
       EXCEPT !.vts[id].cursor_x = @ + 1]

RECURSIVE tab_loop(_, _, _)
tab_loop(W, id, cell) ==
    LET Again(W2) == IF W2.fault = "none" /\ W2.vts[id].cursor_x < VTERM_COLS
                        /\ (W2.vts[id].cursor_x % TAB_WIDTH) # 0
                     THEN tab_loop(W2, id, cell + 1)
                     ELSE W2
    IN Again([StoreCell(W, W.vts[id].cells, cell,
                        [ch |-> 32, attr |-> W.vts[id].current_attr])
                EXCEPT !.vts[id].cursor_x = @ + 1])

vterm_putchar_internal(W, id, c) ==
    LET v == W.vts[id]
        cell == CellPtr(W.vts[id].cursor_x, W.vts[id].cursor_y)
    IN CASE c = 10 -> NextLine(W, id)
         [] c = 13 -> [W EXCEPT !.vts[id].cursor_x = 0]
         [] c = 8 ->
              IF v.cursor_x > 0
              THEN StoreCell([W EXCEPT !.vts[id].cursor_x = @ - 1], v.cells, cell - 1,
                             [ch |-> 32, attr |-> v.current_attr])
              ELSE W
         [] c = 9 -> WrapAtEnd(tab_loop(W, id, cell), id)
         [] OTHER ->
              IF c >= 32 /\ c < 127
              THEN WrapAtEnd([StoreCell(W, v.cells, cell,
                                        [ch |-> c, attr |-> v.current_attr])
                                EXCEPT !.vts[id].cursor_x = @ + 1], id)
              ELSE W

\* mutant: the cells are blanked and the cursor stays where it was
vterm_clear_internal_keep(W, id) ==
    [W EXCEPT !.mem[W.vts[id].cells] = BlankGrid,
              !.vts[id].current_attr = VTERM_DEFAULT_ATTR]

vterm_clear_internal(W, id) ==
    [W EXCEPT !.mem[W.vts[id].cells] = BlankGrid,
              !.vts[id].cursor_x = 0,
              !.vts[id].cursor_y = 0,
              !.vts[id].current_attr = VTERM_DEFAULT_ATTR]

\* mutant: a full queue gives up its oldest byte for the new one
vterm_send_input_overwrite(W, vt_id, c) ==
    IF vt_id >= 0 /\ vt_id < VTERM_COUNT
    THEN [W EXCEPT !.vts[vt_id].input_queue =
                       IF Len(@) < INPUT_QUEUE_SIZE THEN Append(@, c)
                       ELSE Append(Tail(@), c)]
    ELSE W

\* xQueueSend with no wait: a full queue refuses the byte
vterm_send_input(W, vt_id, c) ==
    IF vt_id >= 0 /\ vt_id < VTERM_COUNT /\ Len(W.vts[vt_id].input_queue) < INPUT_QUEUE_SIZE
    THEN [W EXCEPT !.vts[vt_id].input_queue = Append(@, c)]
    ELSE W

(***************************************************************************)
(* C strings and the number conversions of the C library                   *)
(***************************************************************************)
ChAt(s, p) == IF p >= 1 /\ p <= Len(s) THEN s[p] ELSE 0

IsDigit(c) == c >= 48 /\ c <= 57
IsSpace(c) == (c >= 9 /\ c <= 13) \/ c = 32
IsLetter(c) == (c >= 65 /\ c <= 90) \/ (c >= 97 /\ c <= 122)

RECURSIVE CStrLen(_, _)
CStrLen(s, n) == IF n < Len(s) /\ s[n + 1] # 0 THEN CStrLen(s, n + 1) ELSE n

\* the bytes of a char array up to its first NUL
CStr(s) == SubSeq(s, 1, CStrLen(s, 0))

RECURSIVE SkipSpace(_, _)
SkipSpace(s, p) == IF IsSpace(ChAt(s, p)) THEN SkipSpace(s, p + 1) ELSE p

\* digits of strtol: the magnitude, saturated, and whether it left the int range
RECURSIVE StrDigits(_, _, _, _)
StrDigits(s, p, acc, over) ==
    IF IsDigit(ChAt(s, p))
    THEN LET d == ChAt(s, p) - 48
         IN IF over \/ acc > (INT_MAX - d) \div 10
            THEN StrDigits(s, p + 1, INT_MAX, TRUE)
            ELSE StrDigits(s, p + 1, acc * 10 + d, FALSE)
    ELSE [val |-> acc, over |-> over, p |-> p]

\* strtol(s + p, &end, 10) on a 32-bit long: ok iff a number was converted
strtol(s, p) ==
    LET Conv(neg, p2, r) ==
            IF r.p = p2 THEN [ok |-> FALSE, val |-> 0, p |-> p, over |-> FALSE]
            ELSE [ok |-> TRUE,
                  val |-> IF neg THEN (IF r.over THEN INT_MIN ELSE -r.val) ELSE r.val,
                  p |-> r.p, over |-> r.over]
        Digits(neg, p2) == Conv(neg, p2, StrDigits(s, p2, 0, FALSE))
        Sign(p1) == Digits(ChAt(s, p1) = 45,
                           IF ChAt(s, p1) = 45 \/ ChAt(s, p1) = 43 THEN p1 + 1 ELSE p1)
    IN Sign(SkipSpace(s, p))

\* atoi is (int)strtol(s, NULL, 10) in the C library of the target, which
\* saturates; the C standard leaves an unrepresentable result undefined
atoi(s) == strtol(s, 1).val

\* some number in s, from position p on, does not fit an int
RECURSIVE DigitsOverflow(_, _)
DigitsOverflow(s, p) ==
    LET Run(r) == r.over \/ DigitsOverflow(s, r.p)
    IN IF ChAt(s, p) = 0 THEN FALSE
       ELSE IF IsDigit(ChAt(s, p)) THEN Run(StrDigits(s, p, 0, FALSE))
       ELSE DigitsOverflow(s, p + 1)

\* sscanf(s, "%d;%d", &row, &col) with row = col = 1 beforehand
sscanf_row_col(s) ==
    LET Second(r1, r2) == IF r2.ok THEN [row |-> r1.val, col |-> r2.val]
                          ELSE [row |-> r1.val, col |-> 1]
        First(r1) == IF ~r1.ok THEN [row |-> 1, col |-> 1]
                     ELSE IF ChAt(s, r1.p) = 59 THEN Second(r1, strtol(s, r1.p + 1))
                     ELSE [row |-> r1.val, col |-> 1]
    IN First(strtol(s, 1))

RECURSIVE DecDigits(_)
DecDigits(n) == IF n < 10 THEN <<48 + n>> ELSE Append(DecDigits(n \div 10), 48 + (n % 10))

\* printf("%d") for every int but INT_MIN
DecStr(n) == IF n < 0 THEN <<45>> \o DecDigits(-n) ELSE DecDigits(n)

\* num * 10 + d in 32-bit two's complement, computed on 16-bit halves
MulAdd32(num, d) ==
    LET Pack(hi2, lo3) == IF hi2 >= 32768 THEN (hi2 - 65536) * 65536 + lo3
                          ELSE hi2 * 65536 + lo3
        Carry(hi, lo2) == Pack((hi * 10 + (lo2 \div 65536)) % 65536, lo2 % 65536)
    IN IF num >= 0 /\ num <= (INT_MAX - 9) \div 10 THEN num * 10 + d
       ELSE Carry((num \div 65536) % 65536, (num % 65536) * 10 + d)

(***************************************************************************)
(* SGR                                                                     *)
(***************************************************************************)
RECURSIVE sgr_digits(_, _, _)
sgr_digits(s, p, num) ==
    IF IsDigit(ChAt(s, p)) THEN sgr_digits(s, p + 1, MulAdd32(num, ChAt(s, p) - 48))
    ELSE [num |-> num, p |-> p]

sgr_parse_num(s, p) ==
    LET Semi(r) == IF ChAt(s, r.p) = 59 THEN [num |-> r.num, p |-> r.p + 1] ELSE r
    IN Semi(sgr_digits(s, p, 0))

\* mutant: the sub-parameters are left for the loop to read as codes
sgr_skip_extended_none(s, p) == p

\* the sub-parameters of 38 / 48: mode, then one (mode 5) or three (mode 2) numbers
sgr_skip_extended(s, p) ==
    LET Skip1(q) == sgr_parse_num(s, q).p
        Sub(mode) == IF mode.num = 5 THEN Skip1(mode.p)
                     ELSE IF mode.num = 2 THEN Skip1(Skip1(Skip1(mode.p)))
                     ELSE mode.p
    IN Sub(sgr_parse_num(s, p))

\* mutant: the bright bit is not set
OrBright_plain(x) == x

\* x | VTERM_BRIGHT for a 4-bit x
OrBright(x) == IF (x \div VTERM_BRIGHT) % 2 = 1 THEN x ELSE x + VTERM_BRIGHT

\* one iteration of the while (*p) loop of vterm_apply_sgr
sgr_step(attr, s, p, bright) ==
    LET Apply(num, next, fg, bg) ==
            CASE num >= 90 /\ num <= 97 ->
                   [attr |-> VTERM_ATTR(OrBright(num - 90), bg), p |-> next, bright |-> bright]
              [] num >= 30 /\ num <= 37 ->
                   [attr |-> VTERM_ATTR((num - 30) + bright, bg), p |-> next,
                    bright |-> bright]
              [] num = 0 -> [attr |-> VTERM_DEFAULT_ATTR, p |-> next, bright |-> 0]
              [] num = 1 -> [attr |-> VTERM_ATTR(OrBright(fg), bg), p |-> next,
                             bright |-> VTERM_BRIGHT]
              [] num = 22 -> [attr |-> VTERM_ATTR(fg % 8, bg), p |-> next, bright |-> 0]
              [] num = 38 \/ num = 48 ->
                   [attr |-> attr, p |-> sgr_skip_extended(s, next), bright |-> bright]
              [] num = 39 -> [attr |-> VTERM_ATTR(VTERM_WHITE, bg), p |-> next,
                              bright |-> bright]
              [] num >= 40 /\ num <= 47 ->
                   [attr |-> VTERM_ATTR(fg, num - 40), p |-> next, bright |-> bright]
              [] num = 49 -> [attr |-> VTERM_ATTR(fg, VTERM_BLACK), p |-> next,
                              bright |-> bright]
              [] num >= 100 /\ num <= 107 ->
                   [attr |-> VTERM_ATTR(fg, OrBright(num - 100)), p |-> next,
                    bright |-> bright]
              [] OTHER -> [attr |-> attr, p |-> next, bright |-> bright]
        Step(r) == Apply(r.num, r.p, VTERM_ATTR_FG(attr), VTERM_ATTR_BG(attr))
    IN Step(sgr_parse_num(s, p))

\* the loop; an iteration that consumes nothing leaves *p unchanged, so every
\* later iteration repeats it and the loop never exits: hang is TRUE then
RECURSIVE sgr_loop(_, _, _, _)
sgr_loop(attr, s, p, bright) ==
    LET Continue(r) == IF r.p = p THEN [attr |-> r.attr, hang |-> TRUE]
                       ELSE sgr_loop(r.attr, s, r.p, r.bright)
    IN IF ChAt(s, p) = 0 THEN [attr |-> attr, hang |-> FALSE]
       ELSE Continue(sgr_step(attr, s, p, bright))

vterm_apply_sgr(W, id, params) ==
    LET reset == ChAt(params, 1) = 0
                 \/ (ChAt(params, 1) = 48 /\ (ChAt(params, 2) = 0 \/ ChAt(params, 2) = 59))
        SkipSemi(q) == IF reset /\ ChAt(params, q) = 59 THEN q + 1 ELSE q
        Done(r) == [W EXCEPT !.vts[id].current_attr = r.attr,
                             !.fault = IF r.hang THEN "hang" ELSE @]
    IN Done(sgr_loop(IF reset THEN VTERM_DEFAULT_ATTR ELSE W.vts[id].current_attr,
                     params,
                     SkipSemi(IF reset /\ ChAt(params, 1) = 48 THEN 2 ELSE 1),
                     0))

(***************************************************************************)
(* CSI commands                                                            *)
(***************************************************************************)
\* int n = 1; if (buf[0]) n = atoi(buf); if (n < 1) n = 1;
CountParam(params) ==
    LET Min1(n) == IF n < 1 THEN 1 ELSE n
    IN Min1(IF ChAt(params, 1) # 0 THEN atoi(params) ELSE 1)

\* if (v < 0) v = 0;
ClampLow(v) == IF v < 0 THEN 0 ELSE v

\* if (v >= limit) v = limit - 1;
ClampHigh(v, limit) == IF v >= limit THEN limit - 1 ELSE v

\* mutant: row and column are taken in the other order
csi_cursor_position_swapped(W, id, params) ==
    LET Place(rc) ==
            [W EXCEPT !.vts[id].cursor_y =
                          ClampHigh(IF rc.col > 0 THEN rc.col - 1 ELSE 0, VTERM_ROWS),
                      !.vts[id].cursor_x =
                          ClampHigh(IF rc.row > 0 THEN rc.row - 1 ELSE 0, VTERM_COLS)]
    IN IF ChAt(params, 1) = 0 \/ params = <<49, 59, 49>>
       THEN [W EXCEPT !.vts[id].cursor_x = 0, !.vts[id].cursor_y = 0]
       ELSE Place(sscanf_row_col(params))

csi_cursor_position(W, id, params) ==
    LET Place(rc) ==
            [W EXCEPT !.vts[id].cursor_y =
                          ClampHigh(IF rc.row > 0 THEN rc.row - 1 ELSE 0, VTERM_ROWS),
                      !.vts[id].cursor_x =
                          ClampHigh(IF rc.col > 0 THEN rc.col - 1 ELSE 0, VTERM_COLS)]
    IN IF ChAt(params, 1) = 0 \/ params = <<49, 59, 49>>
       THEN [W EXCEPT !.vts[id].cursor_x = 0, !.vts[id].cursor_y = 0]
       ELSE Place(sscanf_row_col(params))

csi_cursor_up(W, id, params) ==
    [W EXCEPT !.vts[id].cursor_y = ClampLow(Add32(@, -CountParam(params)))]

csi_cursor_down(W, id, params) ==
    [W EXCEPT !.vts[id].cursor_y = ClampHigh(Add32(@, CountParam(params)), VTERM_ROWS)]

csi_cursor_right(W, id, params) ==
    [W EXCEPT !.vts[id].cursor_x = ClampHigh(Add32(@, CountParam(params)), VTERM_COLS)]

csi_cursor_left(W, id, params) ==
    [W EXCEPT !.vts[id].cursor_x = ClampLow(Add32(@, -CountParam(params)))]

\* for (x = start; x < end; x++) row[x] = space with the current attribute
EraseCells(W, id, start, end) ==
    LET v == W.vts[id]
    IN IF start >= end THEN W
       ELSE IF v.cursor_y < 0 \/ v.cursor_y >= VTERM_ROWS \/ start < 0 \/ end > VTERM_COLS
       THEN [W EXCEPT !.fault = "oob"]
       ELSE [W EXCEPT !.mem[v.cells] =
                [i \in GridIdx |->
                    IF i >= v.cursor_y * VTERM_COLS + start /\ i < v.cursor_y * VTERM_COLS + end
                    THEN [ch |-> 32, attr |-> v.current_attr] ELSE @[i]]]

csi_erase_line(W, id, params) ==
    LET Erase(mode) == EraseCells(W, id,
                                  IF mode = 0 THEN W.vts[id].cursor_x ELSE 0,
                                  IF mode = 1 THEN Add32(W.vts[id].cursor_x, 1)
                                  ELSE VTERM_COLS)
    IN Erase(IF ChAt(params, 1) # 0 THEN atoi(params) ELSE 0)

csi_erase_chars(W, id, params) ==
    LET Upto(e) == IF e > VTERM_COLS THEN VTERM_COLS ELSE e
    IN EraseCells(W, id, W.vts[id].cursor_x,
                  Upto(Add32(W.vts[id].cursor_x, CountParam(params))))

\* mutant: the count is ignored, one line is inserted or deleted
LinesParam_one(W, id, params) == 1

\* n clamped to the lines from the cursor row to the bottom
LinesParam(W, id, params) ==
    LET Room(n, room) == IF n > room THEN room ELSE n
    IN Room(CountParam(params), VTERM_ROWS - W.vts[id].cursor_y)

csi_insert_lines(W, id, params) ==
    LET v == W.vts[id]
        Insert(n) ==
            [W EXCEPT !.mem[v.cells] =
                ClearRows([i \in GridIdx |->
                             IF i >= (v.cursor_y + n) * VTERM_COLS
                             THEN @[i - n * VTERM_COLS] ELSE @[i]],
                          v.cursor_y, n)]
    IN IF v.cursor_y < 0 \/ v.cursor_y >= VTERM_ROWS THEN [W EXCEPT !.fault = "oob"]
       ELSE Insert(LinesParam(W, id, params))

csi_delete_lines(W, id, params) ==
    LET v == W.vts[id]
        Delete(n) ==
            [W EXCEPT !.mem[v.cells] =
                ClearRows([i \in GridIdx |->
                             IF i >= v.cursor_y * VTERM_COLS
                                /\ i < (VTERM_ROWS - n) * VTERM_COLS
                             THEN @[i + n * VTERM_COLS] ELSE @[i]],
                          VTERM_ROWS - n, n)]
    IN IF v.cursor_y < 0 \/ v.cursor_y >= VTERM_ROWS THEN [W EXCEPT !.fault = "oob"]
       ELSE Delete(LinesParam(W, id, params))

RECURSIVE SendAll(_, _, _)
SendAll(W, vt_id, bytes) ==
    IF bytes = <<>> THEN W
    ELSE SendAll(vterm_send_input(W, vt_id, Head(bytes)), vt_id, Tail(bytes))

\* mutant: the report goes to the queue of the session written to
csi_status_report_own(W, id, params) ==
    IF params = <<54>>
    THEN SendAll(W, id,
                 <<ESC, 91>> \o DecStr(Add32(W.vts[id].cursor_y, 1)) \o <<59>>
                   \o DecStr(Add32(W.vts[id].cursor_x, 1)) \o <<82>>)
    ELSE W

csi_status_report(W, id, params) ==
    IF params = <<54>>
    THEN SendAll(W, W.active,
                 <<ESC, 91>> \o DecStr(Add32(W.vts[id].cursor_y, 1)) \o <<59>>
                   \o DecStr(Add32(W.vts[id].cursor_x, 1)) \o <<82>>)
    ELSE W

\* the command overflows an int: in a number conversion or in cursor + n
csi_overflows(W, id, c, params) ==
    CASE c = 109 \/ c = 72 \/ c = 102 -> DigitsOverflow(params, 1)
      [] c = 65 -> strtol(params, 1).over
                   \/ AddOverflows(W.vts[id].cursor_y, -CountParam(params))
      [] c = 66 -> strtol(params, 1).over
                   \/ AddOverflows(W.vts[id].cursor_y, CountParam(params))
      [] c = 67 \/ c = 88 -> strtol(params, 1).over
                             \/ AddOverflows(W.vts[id].cursor_x, CountParam(params))
      [] c = 68 -> strtol(params, 1).over
                   \/ AddOverflows(W.vts[id].cursor_x, -CountParam(params))
      [] c = 75 \/ c = 76 \/ c = 77 -> strtol(params, 1).over
      [] OTHER -> FALSE

csi_dispatch(W, id, c, params) ==
    CASE c = 109 -> vterm_apply_sgr(W, id, params)
      [] c = 74 -> IF params = <<50>> \/ params = <<>> THEN vterm_clear_internal(W, id) ELSE W
      [] c = 72 \/ c = 102 -> csi_cursor_position(W, id, params)
      [] c = 65 -> csi_cursor_up(W, id, params)
      [] c = 66 -> csi_cursor_down(W, id, params)
      [] c = 67 -> csi_cursor_right(W, id, params)
      [] c = 68 -> csi_cursor_left(W, id, params)
      [] c = 75 -> csi_erase_line(W, id, params)
      [] c = 88 -> csi_erase_chars(W, id, params)
      [] c = 76 -> csi_insert_lines(W, id, params)
      [] c = 77 -> csi_delete_lines(W, id, params)
      [] c = 110 -> csi_status_report(W, id, params)
      [] OTHER -> W

\* ESC M at the top row: rows 0..N-2 move to 1..N-1 and the top row is cleared
ScrollDown(W, id) ==
    LET b == W.vts[id].cells
        old == W.mem[b]
        moved == [i \in GridIdx |-> IF i >= VTERM_COLS THEN old[i - VTERM_COLS] ELSE old[i]]
    IN [W EXCEPT !.mem[b] = ClearRows(moved, 0, 1)]

\* ESC D and ESC E: scroll at the bottom row, else cursor_y++
IndexDown(W, id) ==
    IF W.vts[id].cursor_y >= VTERM_ROWS - 1 THEN vterm_scroll(W, id)
    ELSE [W EXCEPT !.vts[id].cursor_y = @ + 1]

EndEscape(W, id) ==
    [W EXCEPT !.vts[id].escape_state = 0, !.vts[id].escape_buf = <<>>]

\* mutant: no sequence is taken for a DEC private one
IsPrivate_never(buf) == FALSE

\* if (vt->escape_buf[0] == '?')
IsPrivate(buf) == ChAt(buf, 1) = 63

\* returns the world and the function's result: 1 consumed, 0 not an escape byte
vterm_handle_escape(W, id, c) ==
    LET v == W.vts[id]
        Command(params) ==
            [W |-> EndEscape(csi_dispatch([W EXCEPT !.ovf = @ \/ csi_overflows(W, id, c,
                                                                               params)],
                                          id, c, params), id),
             r |-> 1]
        Csi(buf) ==
            IF IsLetter(c)
            THEN IF IsPrivate(buf)
                 THEN [W |-> EndEscape(W, id), r |-> 1]
                 ELSE Command(CStr(SubSeq(buf, 1, Len(buf) - 1)))
            ELSE [W |-> [W EXCEPT !.vts[id].escape_buf = buf], r |-> 1]
        Simple(done) ==
            CASE c = 68 -> IndexDown(done, id)
              [] c = 77 -> IF v.cursor_y <= 0 THEN ScrollDown(done, id)
                           ELSE [done EXCEPT !.vts[id].cursor_y = @ - 1]
              [] c = 69 -> IndexDown([done EXCEPT !.vts[id].cursor_x = 0], id)
    IN CASE v.escape_state = 0 ->
              IF c = ESC
              THEN [W |-> [W EXCEPT !.vts[id].escape_state = 1,
                                    !.vts[id].escape_buf = <<>>], r |-> 1]
              ELSE [W |-> W, r |-> 0]
         [] v.escape_state = 1 ->
              CASE c = 91 -> [W |-> [W EXCEPT !.vts[id].escape_state = 2], r |-> 1]
                [] c = 68 \/ c = 77 \/ c = 69 ->
                     [W |-> Simple([W EXCEPT !.vts[id].dirty = 1,
                                             !.vts[id].escape_state = 0]), r |-> 1]
                [] OTHER -> [W |-> [W EXCEPT !.vts[id].escape_state = 0], r |-> 0]
         [] OTHER ->
              Csi(IF Len(v.escape_buf) < ESCAPE_BUF_SIZE - 1
                  THEN Append(v.escape_buf, c) ELSE v.escape_buf)

(***************************************************************************)
(* Public API, each call as a function of the world.  `self` is the        *)
(* calling context; a mutex holds 0 when free, else the context owning it. *)
(***************************************************************************)
ValidVt(vt_id) == vt_id >= 0 /\ vt_id < VTERM_COUNT

vterm_t_init(i) ==
    [cells |-> i, storage_cells |-> i, cursor_x |-> 0, cursor_y |-> 0,
     current_attr |-> VTERM_DEFAULT_ATTR, input_queue |-> <<>>, mutex |-> 0,
     escape_state |-> 0, escape_buf |-> <<>>, dirty |-> 0]

\* the world vterm_init leaves: every buffer cleared, session 0 in the fast buffer
vterm_init ==
    [mem |-> [b \in BufIds |-> BlankGrid],
     vts |-> [i \in VTs |-> IF i = 0 THEN [vterm_t_init(i) EXCEPT !.cells = IRAM]
                            ELSE vterm_t_init(i)],
     active |-> 0,
     fault |-> "none",
     ovf |-> FALSE]

\* mutant: the outgoing session is re-pointed without saving the fast buffer
switch_save_no_copy(W, old) ==
    [W EXCEPT !.vts[old].cells = W.vts[old].storage_cells]

\* step 1 of the swap: memcpy(old->storage_cells, s_iram_buffer); old->cells = storage
switch_save(W, old) ==
    [W EXCEPT !.mem[W.vts[old].storage_cells] = W.mem[IRAM],
              !.vts[old].cells = W.vts[old].storage_cells]

\* mutant: the incoming grid is loaded but its session is not re-pointed
switch_load_no_repoint(W, new) ==
    [W EXCEPT !.mem[IRAM] = W.mem[W.vts[new].storage_cells]]

\* step 2 of the swap: memcpy(s_iram_buffer, new->storage_cells); new->cells = iram
switch_load(W, new) ==
    [W EXCEPT !.mem[IRAM] = W.mem[W.vts[new].storage_cells],
              !.vts[new].cells = IRAM]

vterm_switch(W, vt_id) ==
    IF ~ValidVt(vt_id) \/ vt_id = W.active THEN W
    ELSE [switch_load(switch_save(W, W.active), vt_id) EXCEPT !.active = vt_id]

\* The callbacks a call invokes, in order, both callbacks being registered.
\* vterm_switch calls s_on_switch_cb(vt_id) once the switch has taken place.
switch_callbacks(W, vt_id) ==
    IF ~ValidVt(vt_id) \/ vt_id = W.active THEN <<>>
    ELSE <<[fn |-> "s_on_switch_cb", arg |-> vt_id]>>

\* vterm_write and vterm_putchar set dirty and call nothing: s_on_render_cb
\* is stored by vterm_set_render_callback and called nowhere
write_callbacks(W, vt_id) == <<>>

RowEnd(y) == IF y >= 0 /\ y < VTERM_ROWS THEN y * VTERM_COLS + VTERM_COLS ELSE -1

\* mutant: every call starts with the parser taken to be in its normal state
write_begin_normal(W, id) ==
    LET v == W.vts[id]
    IN [cx |-> v.cursor_x, cy |-> v.cursor_y, current_attr |-> v.current_attr,
        escape_mode |-> 0, cells_base |-> v.cells,
        cursor_ptr |-> CellPtr(v.cursor_x, v.cursor_y), row_end |-> RowEnd(v.cursor_y)]

\* the state vterm_write caches after taking the mutex
write_begin(W, id) ==
    LET v == W.vts[id]
    IN [cx |-> v.cursor_x, cy |-> v.cursor_y, current_attr |-> v.current_attr,
        escape_mode |-> v.escape_state, cells_base |-> v.cells,
        cursor_ptr |-> CellPtr(v.cursor_x, v.cursor_y), row_end |-> RowEnd(v.cursor_y)]

\* vt->cursor_x = cx; ... the write-back before the slow path and at the end
write_sync(W, id, L) ==
    [W EXCEPT !.vts[id].cursor_x = L.cx, !.vts[id].cursor_y = L.cy,
              !.vts[id].current_attr = L.current_attr,
              !.vts[id].escape_state = L.escape_mode]

\* L re-pointed at the cursor of the session record
write_recache(W, id, L) ==
    [L EXCEPT !.cx = W.vts[id].cursor_x, !.cy = W.vts[id].cursor_y,
              !.cursor_ptr = CellPtr(W.vts[id].cursor_x, W.vts[id].cursor_y),
              !.row_end = RowEnd(W.vts[id].cursor_y)]

write_fast(W, id, L, c) ==
    LET Scrolled(W2) == [W |-> W2, L |-> write_recache(W2, id, L)]
        Advance(W1) ==
            IF W1.fault # "none" THEN [W |-> W1, L |-> L]
            ELSE IF L.cursor_ptr + 1 < L.row_end
            THEN [W |-> W1, L |-> [L EXCEPT !.cursor_ptr = @ + 1, !.cx = @ + 1]]
            ELSE IF L.cy + 1 >= VTERM_ROWS
            THEN Scrolled(vterm_scroll([W1 EXCEPT !.vts[id].cursor_x = 0,
                                                  !.vts[id].cursor_y = L.cy + 1], id))
            ELSE [W |-> W1, L |-> [L EXCEPT !.cx = 0, !.cy = @ + 1, !.cursor_ptr = @ + 1,
                                            !.row_end = @ + VTERM_COLS]]
    IN Advance(StoreCell(W, L.cells_base, L.cursor_ptr,
                         [ch |-> c, attr |-> L.current_attr]))

\* if (!vterm_handle_escape(vt, c)) vterm_putchar_internal(vt, c);
escape_or_putchar(W, id, c) ==
    LET Rest(h) == IF h.r = 0 THEN vterm_putchar_internal(h.W, id, c) ELSE h.W
    IN Rest(vterm_handle_escape(W, id, c))

\* mutant: the cached cursor and pointers are kept after the slow path
write_slow_stale(W, id, L, c) ==
    LET After(W2) == [W |-> W2,
                      L |-> [L EXCEPT !.escape_mode = W2.vts[id].escape_state,
                                      !.current_attr = W2.vts[id].current_attr]]
    IN After(escape_or_putchar(write_sync(W, id, L), id, c))

write_slow(W, id, L, c) ==
    LET Reload(W2, L1) ==
            [W |-> W2,
             L |-> IF W2.vts[id].cursor_x # L.cx \/ W2.vts[id].cursor_y # L.cy
                   THEN write_recache(W2, id, L1) ELSE L1]
        After(W2) == Reload(W2, [L EXCEPT !.escape_mode = W2.vts[id].escape_state,
                                          !.current_attr = W2.vts[id].current_attr])
    IN After(escape_or_putchar(write_sync(W, id, L), id, c))

\* one iteration of the while (p < end) loop
write_byte(W, id, L, c) ==
    IF L.escape_mode = 0 /\ c >= 32 /\ c < 127 THEN write_fast(W, id, L, c)
    ELSE write_slow(W, id, L, c)

RECURSIVE write_loop(_, _, _, _, _)
write_loop(W, id, L, data, p) ==
    LET Rest(r) == write_loop(r.W, id, r.L, data, p + 1)
    IN IF p > Len(data) \/ W.fault # "none" THEN [W |-> W, L |-> L]
       ELSE Rest(write_byte(W, id, L, data[p]))

write_end(W, id, L) == [write_sync(W, id, L) EXCEPT !.vts[id].dirty = 1]

\* a call that faults never gives its mutex back
Unlock(W, id) == IF W.fault = "none" THEN [W EXCEPT !.vts[id].mutex = 0] ELSE W

vterm_write(W, self, id, data) ==
    LET Finish(r) == IF r.W.fault # "none" THEN r.W
                     ELSE Unlock(write_end(r.W, id, r.L), id)
        Locked(W0) == Finish(write_loop(W0, id, write_begin(W0, id), data, 1))
    IN IF ~ValidVt(id) THEN W
       ELSE Locked([W EXCEPT !.vts[id].mutex = self])

vterm_putchar(W, self, id, c) ==
    IF ~ValidVt(id) THEN W
    ELSE Unlock([escape_or_putchar([W EXCEPT !.vts[id].mutex = self], id, c)
                   EXCEPT !.vts[id].dirty = 1], id)

\* mutant: a bad index clears the active session
vterm_clear_active(W, self, id) ==
    LET Clear(i) == Unlock(vterm_clear_internal([W EXCEPT !.vts[i].mutex = self], i), i)
    IN Clear(IF ValidVt(id) THEN id ELSE W.active)

vterm_clear(W, self, id) ==
    IF ~ValidVt(id) THEN W
    ELSE Unlock(vterm_clear_internal([W EXCEPT !.vts[id].mutex = self], id), id)

(***************************************************************************)
(* Task bindings.  The table is read and written under s_task_map_mutex,   *)
(* so each call is one step.                                               *)
(***************************************************************************)
\* the table vterm_init leaves: every slot free, vt_id -1
task_map_init == [i \in 0 .. MAX_TASKS - 1 |-> [task |-> NULL, vt_id |-> -1]]

\* mutant: the binding always goes to the first free slot
vterm_set_task_append(map, task, vt_id) ==
    LET free == {i \in DOMAIN map : map[i].task = NULL}
        First(S) == CHOOSE i \in S : \A j \in S : i <= j
    IN IF free = {} THEN map
       ELSE [map EXCEPT ![First(free)] = [task |-> task, vt_id |-> vt_id]]

RECURSIVE set_task_loop(_, _, _, _, _)
set_task_loop(map, task, vt_id, i, empty_slot) ==
    IF i >= MAX_TASKS
    THEN IF empty_slot >= 0
         THEN [map EXCEPT ![empty_slot] = [task |-> task, vt_id |-> vt_id]]
         ELSE map
    ELSE IF map[i].task = task THEN [map EXCEPT ![i].vt_id = vt_id]
    ELSE set_task_loop(map, task, vt_id, i + 1,
                       IF empty_slot < 0 /\ map[i].task = NULL THEN i ELSE empty_slot)

\* mutant: with no slot left the binding replaces the one in slot 0
vterm_set_task_evict(map, task, vt_id) ==
    IF \A i \in DOMAIN map : map[i].task # task /\ map[i].task # NULL
    THEN [map EXCEPT ![0] = [task |-> task, vt_id |-> vt_id]]
    ELSE set_task_loop(map, task, vt_id, 0, -1)

vterm_set_task(map, task, vt_id) == set_task_loop(map, task, vt_id, 0, -1)

RECURSIVE get_task_vt_loop(_, _, _)
get_task_vt_loop(map, task, i) ==
    IF i >= MAX_TASKS THEN -1
    ELSE IF map[i].task = task THEN map[i].vt_id
    ELSE get_task_vt_loop(map, task, i + 1)

vterm_get_task_vt(map, task) == get_task_vt_loop(map, task, 0)

\* mutant: the binding is ignored
vterm_get_current_vt_active(map, active, task) == active

\* task is xTaskGetCurrentTaskHandle()
vterm_get_current_vt(map, active, task) ==
    IF vterm_get_task_vt(map, task) >= 0 THEN vterm_get_task_vt(map, task) ELSE active

(***************************************************************************)
(* Hotkey detector.  buf is s_esc_buf[0 .. s_esc_len-1] (1-based here).     *)
(***************************************************************************)
\* 'P'..'S' -> 0..3, anything else -1
FKey(c) == IF c >= 80 /\ c <= 83 THEN c - 80 ELSE -1

RECURSIVE hk_digits(_, _, _)
hk_digits(buf, p, num) ==
    IF IsDigit(ChAt(buf, p)) THEN hk_digits(buf, p + 1, MulAdd32(num, ChAt(buf, p) - 48))
    ELSE [num |-> num, p |-> p]

\* mutant: only the plain ESC O P..S form is matched
match_ss3_plain(buf) ==
    IF Len(buf) >= 3 /\ buf[2] = 79 THEN FKey(buf[3]) ELSE -1

match_ss3(buf) ==
    IF Len(buf) >= 3 /\ buf[2] = 79
    THEN IF FKey(buf[3]) >= 0 THEN FKey(buf[3])
         ELSE IF Len(buf) >= 4 /\ buf[3] = 53 THEN FKey(buf[4])
         ELSE -1
    ELSE -1

match_csi(buf) ==
    LET n == Len(buf)
        Modifier(p) == IF ChAt(buf, p) = 59 THEN hk_digits(buf, p + 1, 0).num ELSE 0
        CsiU(first) == IF buf[n] = 117 /\ first.num >= 49 /\ first.num <= 52
                          /\ Modifier(first.p) = 5
                       THEN first.num - 49 ELSE -1
        Tilde(first) == IF buf[n] = 126 /\ first.num >= 11 /\ first.num <= 14
                        THEN first.num - 11 ELSE CsiU(first)
    IN IF n >= 3 /\ buf[2] = 91
       THEN IF n = 6 /\ buf[3] = 49 /\ buf[4] = 59 /\ buf[5] = 53 /\ FKey(buf[6]) >= 0
            THEN FKey(buf[6])
            ELSE Tilde(hk_digits(buf, 3, 0))
       ELSE -1

match_vt_hotkey(buf) ==
    IF Len(buf) < 2 \/ buf[1] # ESC THEN -1
    ELSE IF match_ss3(buf) >= 0 THEN match_ss3(buf)
    ELSE match_csi(buf)

\* mutant: no limit on the length of a sequence still being built
could_be_hotkey_unlimited(buf) ==
    LET n == Len(buf)
        last == buf[n]
    IN IF n = 0 \/ buf[1] # ESC THEN FALSE
       ELSE IF n = 1 THEN TRUE
       ELSE IF buf[2] = 79 \/ buf[2] = 91
       THEN IF n >= 3 /\ (last = 126 \/ last = 117 \/ (last >= 65 /\ last <= 90))
            THEN FALSE
            ELSE TRUE
       ELSE FALSE

could_be_hotkey(buf) ==
    LET n == Len(buf)
        last == buf[n]
    IN IF n = 0 \/ buf[1] # ESC THEN FALSE
       ELSE IF n = 1 THEN TRUE
       ELSE IF buf[2] = 79 \/ buf[2] = 91
       THEN IF n > 10 THEN FALSE
            ELSE IF n >= 3 /\ (last = 126 \/ last = 117 \/ (last >= 65 /\ last <= 90))
            THEN FALSE
            ELSE TRUE
       ELSE FALSE

\* mutant: only the first buffered byte is sent
flush_input_buffer_head(W, buf) == vterm_send_input(W, W.active, buf[1])

\* sends the buffered bytes to the active session, in order
flush_input_buffer(W, buf) == SendAll(W, W.active, buf)

\* mutant: a matched hotkey stays in the buffer
input_feed_byte_keep(W, buf, start, now, c) ==
    LET Match(b2, vt) ==
            IF vt >= 0
            THEN [W |-> vterm_switch(W, vt), buf |-> b2, start |-> start, r |-> 1]
            ELSE IF could_be_hotkey(b2)
            THEN [W |-> W, buf |-> b2, start |-> start, r |-> 0]
            ELSE [W |-> flush_input_buffer(W, b2), buf |-> <<>>, start |-> start, r |-> 0]
        Buffered(b2) == Match(b2, match_vt_hotkey(b2))
    IN IF buf = <<>> /\ c = ESC
       THEN [W |-> W, buf |-> <<c>>, start |-> now, r |-> 0]
       ELSE IF buf # <<>>
       THEN Buffered(IF Len(buf) < S_ESC_BUF_SIZE - 1 THEN Append(buf, c) ELSE buf)
       ELSE [W |-> vterm_send_input(W, W.active, c), buf |-> <<>>, start |-> start,
             r |-> 0]

\* the part of vterm_input_feed after the timeout check
input_feed_byte(W, buf, start, now, c) ==
    LET Match(b2, vt) ==
            IF vt >= 0
            THEN [W |-> vterm_switch(W, vt), buf |-> <<>>, start |-> start, r |-> 1]
            ELSE IF could_be_hotkey(b2)
            THEN [W |-> W, buf |-> b2, start |-> start, r |-> 0]
            ELSE [W |-> flush_input_buffer(W, b2), buf |-> <<>>, start |-> start, r |-> 0]
        Buffered(b2) == Match(b2, match_vt_hotkey(b2))
    IN IF buf = <<>> /\ c = ESC
       THEN [W |-> W, buf |-> <<c>>, start |-> now, r |-> 0]
       ELSE IF buf # <<>>
       THEN Buffered(IF Len(buf) < S_ESC_BUF_SIZE - 1 THEN Append(buf, c) ELSE buf)
       ELSE [W |-> vterm_send_input(W, W.active, c), buf |-> <<>>, start |-> start,
             r |-> 0]

\* returns the world, the scratch buffer, its start tick and the call's result
vterm_input_feed(W, buf, start, now, c) ==
    IF buf # <<>> /\ (now - start) > HOTKEY_TIMEOUT_TICKS
    THEN input_feed_byte(flush_input_buffer(W, buf), <<>>, start, now, c)
    ELSE input_feed_byte(W, buf, start, now, c)

(***************************************************************************)
(* State machine.  Serialized scenarios make whole calls, one at a time.   *)
(***************************************************************************)
NCtx == 2
MaxCalls == 4

Ctx == 1 .. NCtx
Idle == [pc |-> "idle"]

\* an int overflow is undefined: the call either went on with the wrapped or
\* saturated value, as the world W has it, or did anything else
UndefinedOutcomes(W) ==
    IF W.ovf /\ W.fault = "none" THEN {"none", "undefined"} ELSE {W.fault}

SetWorld(W) ==
    /\ mem' = W.mem
    /\ s_vterms' = W.vts
    /\ s_active_vt' = W.active
    /\ fault' \in UndefinedOutcomes(W)

\* the non-tiered parser at rest: s_escape_state = 0, s_escape_len = 0
NoEscape == [state |-> 0, buf |-> <<>>]

NoKey == [script |-> <<>>, pos |-> 0, clean |-> TRUE, sent |-> 0, log |-> <<>>,
          kept |-> <<>>]
NoCall == [op |-> "init"]

InitRegistered(n, cb) ==
    /\ mem = vterm_init.mem
    /\ s_vterms = vterm_init.vts
    /\ s_active_vt = vterm_init.active
    /\ fault = vterm_init.fault
    /\ s_esc_buf = <<>>
    /\ s_esc_start = 0
    /\ s_task_map = task_map_init
    /\ s_on_switch_cb = cb
    /\ s_escape = NoEscape
    /\ tick = 0
    /\ ctx = [c \in Ctx |-> Idle]
    /\ ref = vterm_init
    /\ call = NoCall
    /\ kbd = NoKey
    /\ budget = n

\* the state vterm_init leaves: no callback is registered
InitWith(n) == InitRegistered(n, NULL)

\* a call may start: nothing has faulted, no call is in progress, calls remain
Serial == fault = "none" /\ budget > 0 /\ \A c \in Ctx : ctx[c].pc = "idle"

LogicalView(W, i) ==
    [grid |-> W.mem[W.vts[i].cells], cursor_x |-> W.vts[i].cursor_x,
     cursor_y |-> W.vts[i].cursor_y, current_attr |-> W.vts[i].current_attr]

TotalQueued(W) ==
    LET RECURSIVE Sum(_)
        Sum(i) == IF i >= VTERM_COUNT THEN 0 ELSE Len(W.vts[i].input_queue) + Sum(i + 1)
    IN Sum(0)

\* what a call finds: the session's logical state and its parser state
Pre(id) ==
    IF ValidVt(id)
    THEN [view |-> LogicalView(World, id), escape_state |-> s_vterms[id].escape_state]
    ELSE [view |-> <<>>, escape_state |-> 0]

WriteCall(id, data) ==
    /\ Serial
    /\ SetWorld(vterm_write(World, 1, id, data))
    /\ ref' = vterm_write(ref, 1, id, data)
    /\ call' = [op |-> "write", id |-> id, data |-> data, pre |-> Pre(id),
                cb |-> write_callbacks(World, id)]
    /\ budget' = budget - 1
    /\ UNCHANGED <<s_esc_buf, s_esc_start, s_task_map, s_on_switch_cb, s_escape, tick, ctx, kbd>>

PutcharCall(id, c) ==
    /\ Serial
    /\ SetWorld(vterm_putchar(World, 1, id, c))
    /\ ref' = vterm_putchar(ref, 1, id, c)
    /\ call' = [op |-> "putchar", id |-> id, data |-> <<c>>, pre |-> Pre(id),
                cb |-> write_callbacks(World, id)]
    /\ budget' = budget - 1
    /\ UNCHANGED <<s_esc_buf, s_esc_start, s_task_map, s_on_switch_cb, s_escape, tick, ctx, kbd>>

ClearCall(id) ==
    /\ Serial
    /\ SetWorld(vterm_clear(World, 1, id))
    /\ ref' = vterm_clear(ref, 1, id)
    /\ call' = [op |-> "clear", id |-> id, cb |-> <<>>]
    /\ budget' = budget - 1
    /\ UNCHANGED <<s_esc_buf, s_esc_start, s_task_map, s_on_switch_cb, s_escape, tick, ctx, kbd>>

SwitchCall(vt_id) ==
    /\ Serial
    /\ SetWorld(vterm_switch(World, vt_id))
    /\ call' = [op |-> "switch", id |-> vt_id,
                cb |-> IF s_on_switch_cb = NULL THEN <<>>
                       ELSE switch_callbacks(World, vt_id)]
    /\ budget' = budget - 1
    /\ UNCHANGED <<s_esc_buf, s_esc_start, s_task_map, s_on_switch_cb, s_escape, tick, ctx, ref, kbd>>

\* what a call appended to the input queue of session i
Queued(W, i) ==
    SubSeq(W.vts[i].input_queue, Len(s_vterms[i].input_queue) + 1,
           Len(W.vts[i].input_queue))

\* vterm_input_feed(c), c the byte at position pos + 1 of key sequence script.
\* The call record keeps the bytes the timeout check flushed, the bytes the
\* buffer held after it and the bytes the call queued; kbd.log collects the bytes queued since the
\* key sequence began and kbd.kept the bytes fed since then, with those the
\* buffer held at its beginning, less the bytes of matched hotkeys.
Feed(script, pos, clean, sent, log, kept) ==
    LET c == script[pos + 1]
        late == s_esc_buf # <<>> /\ (tick - s_esc_start) > HOTKEY_TIMEOUT_TICKS
        held == IF late THEN <<>> ELSE s_esc_buf
        f == vterm_input_feed(World, s_esc_buf, s_esc_start, tick, c)
    IN /\ SetWorld(f.W)
       /\ s_esc_buf' = f.buf
       /\ s_esc_start' = f.start
       /\ call' = [op |-> "feed", data |-> <<c>>, r |-> f.r, held |-> held,
                   flushed |-> IF late THEN s_esc_buf ELSE <<>>,
                   routed |-> Queued(f.W, s_active_vt)]
       /\ kbd' = [script |-> script, pos |-> pos + 1, clean |-> clean /\ ~late,
                  sent |-> sent + (TotalQueued(f.W) - TotalQueued(World)),
                  log |-> log \o Queued(f.W, s_active_vt),
                  kept |-> IF f.r = 1 THEN SubSeq(kept, 1, Len(kept) - Len(held))
                           ELSE Append(kept, c)]
       /\ UNCHANGED <<s_task_map, s_on_switch_cb, s_escape, tick, ctx, ref>>

\* the first byte of a new key sequence
FeedFirst(script) ==
    /\ Serial
    /\ kbd.pos = Len(kbd.script)
    /\ Feed(script, 0, s_esc_buf = <<>>, 0, <<>>, s_esc_buf)
    /\ budget' = budget - 1

\* the next byte of the key sequence being delivered
FeedNext ==
    /\ fault = "none"
    /\ \A c \in Ctx : ctx[c].pc = "idle"
    /\ kbd.pos < Len(kbd.script)
    /\ Feed(kbd.script, kbd.pos, kbd.clean, kbd.sent, kbd.log, kbd.kept)
    /\ UNCHANGED budget

\* the output each session's program produces in the general scenario
Output(i) ==
    CASE i = 0 -> <<65, 66>>
      [] i = 1 -> <<67, 68>>
      [] i = 2 -> <<ESC, 91, 51, 49, 109, 69>>
      [] OTHER -> <<70, 10>>

SerialKeys == { <<ESC, 79, 82>>, <<120>> }

Init == InitWith(MaxCalls)

Next ==
    \/ \E id \in VTs : WriteCall(id, Output(id))
    \/ \E id \in VTs : PutcharCall(id, 90)
    \/ \E id \in VTs : ClearCall(id)
    \/ \E id \in VTs : SwitchCall(id)
    \/ \E k \in SerialKeys : FeedFirst(k)
    \/ FeedNext

Spec == Init /\ [][Next]_vars

(***************************************************************************)
(* Claims checked under Spec                                               *)
(***************************************************************************)
\* C1: under serialized writes and switches, every session's logical grid
\* (read through its cells reference), cursor and current attribute equal
\* those of a world that received the same writes and was never switched.
C1_SwitchTransparent ==
    \A i \in VTs : LogicalView(World, i) = LogicalView(ref, i)

\* "AB" written to session 0, "CD" to session 1, and session 0 switched back in
C1_Witness ==
    /\ call.op = "switch" /\ call.id = 0 /\ s_active_vt = 0
    /\ s_vterms[0].cells = IRAM /\ s_vterms[1].cells = 1
    /\ mem[IRAM][0].ch = 65 /\ mem[IRAM][1].ch = 66
    /\ s_vterms[0].cursor_x = 2 /\ s_vterms[0].cursor_y = 0
    /\ mem[1][0].ch = 67 /\ mem[1][1].ch = 68
    /\ mem[0][0].ch = 65

\* C2: after init and any serialized calls, the active session and only it
\* designates the fast buffer; every other session designates its own storage.
C2_OneFastOwner ==
    \A i \in VTs :
        IF i = s_active_vt THEN s_vterms[i].cells = IRAM
        ELSE s_vterms[i].cells = s_vterms[i].storage_cells /\ s_vterms[i].storage_cells = i

\* a hotkey has just moved the fast buffer from session 0 to session 2
C2_Witness ==
    /\ call.op = "feed" /\ call.r = 1
    /\ s_active_vt = 2 /\ s_vterms[2].cells = IRAM /\ s_vterms[0].cells = 0

(***************************************************************************)
(* Concurrent scenarios.  Each context runs one call at a time, a step at  *)
(* a time; xSemaphoreTake blocks while the mutex is held, also when the    *)
(* holder is the caller itself (the mutexes are not recursive).            *)
(***************************************************************************)
MaxSwitches == 3
MaxWrites == 2

OtherVars == <<s_esc_buf, s_esc_start, s_task_map, s_on_switch_cb, s_escape, tick, kbd>>

SetCtx(k, c) == ctx' = [ctx EXCEPT ![k] = c]

CanStart(k) == fault = "none" /\ ctx[k].pc = "idle"

\* the sessions whose mutex context k holds
HeldBy(k) == {i \in VTs : s_vterms[i].mutex = k}

\* a context that holds the mutex of session i for a write, putchar or clear
Writing(i) ==
    \E j \in Ctx : ctx[j].pc \in {"wr_loop", "put_body", "clr_body"} /\ ctx[j].id = i

\* the text session id's program prints in the concurrent scenarios
ConcOutput(id) == <<65 + id, 97 + id>>

InitConc(sw, wr) ==
    /\ InitWith([sw |-> sw, wr |-> wr])

\* if (vt_id < 0 || vt_id >= VTERM_COUNT) return; if (vt_id == s_active_vt) return;
SwCheck(k, vt_id) ==
    /\ CanStart(k)
    /\ budget.sw > 0
    /\ budget' = [budget EXCEPT !.sw = @ - 1]
    /\ IF ~ValidVt(vt_id) \/ vt_id = s_active_vt
       THEN /\ ctx' = ctx
            /\ call' = [op |-> "switch", id |-> vt_id, overlap |-> FALSE,
                         from |-> s_active_vt, cb |-> switch_callbacks(World, vt_id),
                         active |-> s_active_vt, held |-> HeldBy(k)]
       ELSE /\ SetCtx(k, [pc |-> "sw_read", new |-> vt_id,
                          overlap |-> Writing(s_active_vt) \/ Writing(vt_id)])
            /\ call' = call
    /\ UNCHANGED <<mem, s_vterms, s_active_vt, fault, ref, OtherVars>>

\* vterm_t *old_vt = &s_vterms[s_active_vt];
SwRead(k) ==
    /\ ctx[k].pc = "sw_read"
    /\ SetCtx(k, [ctx[k] EXCEPT !.pc = "sw_take_old"] @@ [old |-> s_active_vt])
    /\ UNCHANGED <<mem, s_vterms, s_active_vt, fault, ref, call, budget, OtherVars>>

\* xSemaphoreTake(old_vt->mutex, portMAX_DELAY);
SwTakeOld(k) ==
    /\ ctx[k].pc = "sw_take_old"
    /\ s_vterms[ctx[k].old].mutex = 0
    /\ s_vterms' = [s_vterms EXCEPT ![ctx[k].old].mutex = k]
    /\ SetCtx(k, [ctx[k] EXCEPT !.pc = "sw_take_new"])
    /\ UNCHANGED <<mem, s_active_vt, fault, ref, call, budget, OtherVars>>

\* mutant: the switch does not wait for the incoming session's mutex
SwTakeNew_no_wait(k) ==
    /\ ctx[k].pc = "sw_take_new"
    /\ SetCtx(k, [ctx[k] EXCEPT !.pc = "sw_save"])
    /\ UNCHANGED <<mem, s_vterms, s_active_vt, fault, ref, call, budget, OtherVars>>

\* xSemaphoreTake(new_vt->mutex, portMAX_DELAY);
SwTakeNew(k) ==
    /\ ctx[k].pc = "sw_take_new"
    /\ s_vterms[ctx[k].new].mutex = 0
    /\ s_vterms' = [s_vterms EXCEPT ![ctx[k].new].mutex = k]
    /\ SetCtx(k, [ctx[k] EXCEPT !.pc = "sw_save"])
    /\ UNCHANGED <<mem, s_active_vt, fault, ref, call, budget, OtherVars>>

\* 1. Save Active State
SwSave(k) ==
    /\ ctx[k].pc = "sw_save"
    /\ SetWorld(switch_save(World, ctx[k].old))
    /\ SetCtx(k, [ctx[k] EXCEPT !.pc = "sw_load"])
    /\ UNCHANGED <<ref, call, budget, OtherVars>>

\* 2. Load New State; s_active_vt = vt_id;
SwLoad(k) ==
    /\ ctx[k].pc = "sw_load"
    /\ SetWorld([switch_load(World, ctx[k].new) EXCEPT !.active = ctx[k].new])
    /\ SetCtx(k, [ctx[k] EXCEPT !.pc = "sw_give_new"])
    /\ UNCHANGED <<ref, call, budget, OtherVars>>

\* xSemaphoreGive(new_vt->mutex);
SwGiveNew(k) ==
    /\ ctx[k].pc = "sw_give_new"
    /\ s_vterms' = [s_vterms EXCEPT ![ctx[k].new].mutex = 0]
    /\ SetCtx(k, [ctx[k] EXCEPT !.pc = "sw_give_old"])
    /\ UNCHANGED <<mem, s_active_vt, fault, ref, call, budget, OtherVars>>

\* mutant: old_vt->mutex is still held after this step
SwGiveOld_keep(k) ==
    /\ ctx[k].pc = "sw_give_old"
    /\ IF s_on_switch_cb = NULL
       THEN /\ SetCtx(k, Idle)
            /\ call' = [op |-> "switch", id |-> ctx[k].new, overlap |-> ctx[k].overlap,
                        from |-> ctx[k].old, cb |-> <<>>,
                        active |-> s_active_vt, held |-> HeldBy(k)]
       ELSE /\ SetCtx(k, [ctx[k] EXCEPT !.pc = "sw_callback"])
            /\ call' = call
    /\ UNCHANGED <<mem, s_vterms, s_active_vt, fault, ref, budget, OtherVars>>

\* xSemaphoreGive(old_vt->mutex); if (s_on_switch_cb) ...: with no callback
\* registered the call returns
SwGiveOld(k) ==
    /\ ctx[k].pc = "sw_give_old"
    /\ s_vterms' = [s_vterms EXCEPT ![ctx[k].old].mutex = 0]
    /\ IF s_on_switch_cb = NULL
       THEN /\ SetCtx(k, Idle)
            /\ call' = [op |-> "switch", id |-> ctx[k].new, overlap |-> ctx[k].overlap,
                        from |-> ctx[k].old, cb |-> <<>>,
                        active |-> s_active_vt, held |-> HeldBy(k) \ {ctx[k].old}]
       ELSE /\ SetCtx(k, [ctx[k] EXCEPT !.pc = "sw_callback"])
            /\ call' = call
    /\ UNCHANGED <<mem, s_active_vt, fault, ref, budget, OtherVars>>

\* s_on_switch_cb(vt_id); and the call returns.  The record keeps what the
\* callback is called with, the active index it finds and the session
\* mutexes its caller holds.
SwCallback(k) ==
    /\ ctx[k].pc = "sw_callback"
    /\ SetCtx(k, Idle)
    /\ call' = [op |-> "switch", id |-> ctx[k].new, overlap |-> ctx[k].overlap,
                from |-> ctx[k].old,
                cb |-> <<[fn |-> "s_on_switch_cb", arg |-> ctx[k].new]>>,
                active |-> s_active_vt, held |-> HeldBy(k)]
    /\ UNCHANGED <<mem, s_vterms, s_active_vt, fault, ref, budget, OtherVars>>

\* a writer's call may start: it is a valid session and its mutex is free
WriterTake(k, id) ==
    /\ CanStart(k)
    /\ budget.wr > 0
    /\ ValidVt(id)
    /\ s_vterms[id].mutex = 0
    /\ budget' = [budget EXCEPT !.wr = @ - 1]
    /\ s_vterms' = [s_vterms EXCEPT ![id].mutex = k]
    /\ UNCHANGED <<mem, s_active_vt, fault, call, OtherVars>>

\* vterm_write up to the end of "Cache state"
WrTake(k, id, data) ==
    /\ WriterTake(k, id)
    /\ SetCtx(k, [pc |-> "wr_loop", id |-> id, data |-> data, p |-> 1,
                  L |-> write_begin(World, id)])
    /\ ref' = vterm_write(ref, k, id, data)

\* one iteration of while (p < end)
WrByte(k) ==
    LET Done(r) == /\ SetWorld(r.W)
                   /\ SetCtx(k, [ctx[k] EXCEPT !.p = @ + 1, !.L = r.L])
    IN /\ ctx[k].pc = "wr_loop"
       /\ fault = "none"
       /\ ctx[k].p <= Len(ctx[k].data)
       /\ Done(write_byte(World, ctx[k].id, ctx[k].L, ctx[k].data[ctx[k].p]))
       /\ UNCHANGED <<ref, call, budget, OtherVars>>

\* the write-back after the loop, and xSemaphoreGive
WrGive(k) ==
    /\ ctx[k].pc = "wr_loop"
    /\ fault = "none"
    /\ ctx[k].p > Len(ctx[k].data)
    /\ SetWorld(Unlock(write_end(World, ctx[k].id, ctx[k].L), ctx[k].id))
    /\ SetCtx(k, Idle)
    /\ call' = [op |-> "write", id |-> ctx[k].id, data |-> ctx[k].data]
    /\ UNCHANGED <<ref, budget, OtherVars>>

PutTake(k, id, c) ==
    /\ WriterTake(k, id)
    /\ SetCtx(k, [pc |-> "put_body", id |-> id, c |-> c])
    /\ ref' = vterm_putchar(ref, k, id, c)

PutBody(k) ==
    /\ ctx[k].pc = "put_body"
    /\ SetWorld(Unlock([escape_or_putchar(World, ctx[k].id, ctx[k].c)
                          EXCEPT !.vts[ctx[k].id].dirty = 1], ctx[k].id))
    /\ SetCtx(k, Idle)
    /\ call' = [op |-> "putchar", id |-> ctx[k].id, data |-> <<ctx[k].c>>]
    /\ UNCHANGED <<ref, budget, OtherVars>>

ClrTake(k, id) ==
    /\ WriterTake(k, id)
    /\ SetCtx(k, [pc |-> "clr_body", id |-> id])
    /\ ref' = vterm_clear(ref, k, id)

ClrBody(k) ==
    /\ ctx[k].pc = "clr_body"
    /\ SetWorld(Unlock(vterm_clear_internal(World, ctx[k].id), ctx[k].id))
    /\ SetCtx(k, Idle)
    /\ call' = [op |-> "clear", id |-> ctx[k].id]
    /\ UNCHANGED <<ref, budget, OtherVars>>

NextConc ==
    \/ \E k \in Ctx, id \in VTs : SwCheck(k, id)
    \/ \E k \in Ctx : SwRead(k)
    \/ \E k \in Ctx : SwTakeOld(k)
    \/ \E k \in Ctx : SwTakeNew(k)
    \/ \E k \in Ctx : SwSave(k)
    \/ \E k \in Ctx : SwLoad(k)
    \/ \E k \in Ctx : SwGiveNew(k)
    \/ \E k \in Ctx : SwGiveOld(k)
    \/ \E k \in Ctx, id \in VTs : WrTake(k, id, ConcOutput(id))
    \/ \E k \in Ctx : WrByte(k)
    \/ \E k \in Ctx : WrGive(k)
    \/ \E k \in Ctx, id \in VTs : PutTake(k, id, 48 + id)
    \/ \E k \in Ctx : PutBody(k)
    \/ \E k \in Ctx, id \in VTs : ClrTake(k, id)
    \/ \E k \in Ctx : ClrBody(k)

\* one vterm_switch call among concurrent writers
InitOneSwitch == InitConc(1, MaxWrites)
SpecOneSwitch == InitOneSwitch /\ [][NextConc]_vars

\* several vterm_switch calls among concurrent writers
InitManySwitch == InitConc(MaxSwitches, 1)
SpecConc == InitManySwitch /\ [][NextConc]_vars

\* vterm_set_switch_callback(cb) was called after vterm_init; then one
\* vterm_switch call among concurrent writers
InitSwitchCb == InitRegistered([sw |-> 1, wr |-> MaxWrites - 1], NULL + 1)
NextSwitchCb == NextConc \/ \E k \in Ctx : SwCallback(k)
SpecSwitchCb == InitSwitchCb /\ [][NextSwitchCb]_vars

(***************************************************************************)
(* Claims checked under SpecOneSwitch and SpecConc                         *)
(***************************************************************************)
\* C3: with one vterm_switch among concurrent writers, every session whose
\* writer calls have all returned shows exactly what was written to it (its
\* logical grid, cursor and attribute equal those of the never-switched
\* world), and a writer in its loop always holds the cell reference its
\* session currently has: no writer works on a copied-out or re-pointed grid.
C3_WritersSeeWholeSwap ==
    /\ \A i \in VTs : ~Writing(i) => LogicalView(World, i) = LogicalView(ref, i)
    /\ \A k \in Ctx : ctx[k].pc = "wr_loop" =>
                         ctx[k].L.cells_base = s_vterms[ctx[k].id].cells

\* a switch to session 1 that began while a writer held a mutex it needs has
\* returned; session 0 shows "Aa" in its storage, session 1 "Bb" in the fast buffer
C3_Witness ==
    /\ call.op = "switch" /\ call.id = 1 /\ call.overlap
    /\ \A k \in Ctx : ctx[k].pc = "idle"
    /\ s_active_vt = 1 /\ s_vterms[1].cells = IRAM
    /\ mem[IRAM][0].ch = 66 /\ mem[IRAM][1].ch = 98
    /\ mem[0][0].ch = 65 /\ mem[0][1].ch = 97

\* C21: a vterm_switch call to a valid session that is not the active one
\* invokes the switch callback exactly once, with the new index, when the
\* active index is already the new one and its caller holds no session
\* mutex any more; a call that is a no-op invokes no callback.
C21_SwitchCallback ==
    call.op = "switch" =>
        IF ValidVt(call.id) /\ call.id # call.from
        THEN /\ call.cb = <<[fn |-> "s_on_switch_cb", arg |-> call.id]>>
             /\ call.active = call.id
             /\ call.held = {}
        ELSE call.cb = <<>>

\* a switch from session 0 to session 1, begun while a writer held a mutex
\* it needs, has called back and returned
C21_Witness ==
    /\ call.op = "switch" /\ call.from = 0 /\ call.id = 1 /\ call.overlap
    /\ Len(call.cb) = 1 /\ s_active_vt = 1
    /\ \A k \in Ctx : ctx[k].pc = "idle"

\* a switch to the session that is already active has returned
C21_NoOpWitness ==
    call.op = "switch" /\ call.id = call.from /\ call.cb = <<>>

\* C4: no reachable state has two contexts inside vterm_switch that each
\* hold one session mutex and wait for the mutex the other holds.
C4_NoCircularWait ==
    ~ \E a \in Ctx, b \in Ctx :
         /\ a # b
         /\ ctx[a].pc = "sw_take_new" /\ ctx[b].pc = "sw_take_new"
         /\ s_vterms[ctx[a].old].mutex = a /\ s_vterms[ctx[a].new].mutex = b
         /\ s_vterms[ctx[b].old].mutex = b /\ s_vterms[ctx[b].new].mutex = a

\* C5: once every concurrent vterm_switch call has returned, exactly one
\* session designates the fast buffer and it is the active session.
C5_OwnershipNotDuplicated ==
    (\A k \in Ctx : ctx[k].pc = "idle") =>
        \A i \in VTs : (s_vterms[i].cells = IRAM) <=> (i = s_active_vt)

(***************************************************************************)
(* Escape-sequence scenarios: serialized writes of control bytes and       *)
(* escape sequences, whole or byte by byte.                                *)
(***************************************************************************)
MaxEscCalls == 3

\* the bytes of ESC [ params final
CsiSeq(params, final) == <<ESC, 91>> \o params \o <<final>>

EscInputs ==
    { <<10>>,
      <<65, 66>>,
      CsiSeq(DecStr(INT_MAX), 66),
      CsiSeq(DecStr(INT_MAX), 67),
      CsiSeq(<<50, 59, 51>>, 72),
      CsiSeq(<<49, 59, 51, 49>>, 109),
      CsiSeq(<<58>>, 109) }

EscBytes == { ESC, 91, 58, 109, 65 }

InitEsc == InitWith(MaxEscCalls)

NextEsc ==
    \/ \E id \in VTs, data \in EscInputs : WriteCall(id, data)
    \/ \E id \in VTs, c \in EscBytes : PutcharCall(id, c)

SpecEsc == InitEsc /\ [][NextEsc]_vars

\* C6: whenever a session's mutex is free its cursor lies inside the grid,
\* and no cell access has fallen outside the grid.
C6_CursorInGrid ==
    /\ fault # "oob"
    /\ \A i \in VTs : s_vterms[i].mutex = 0 =>
                         InGrid(s_vterms[i].cursor_x, s_vterms[i].cursor_y)

\* C7: no vterm_write / vterm_putchar call spins forever; after every call
\* the session mutexes are free again.
C7_WritesReturn ==
    /\ fault # "hang"
    /\ \A i \in VTs : s_vterms[i].mutex = 0

(***************************************************************************)
(* Printing scenarios: serialized writes of plain text, from the cursor    *)
(* and attribute that earlier writes have left.                            *)
(***************************************************************************)
MaxPrintCalls == 2

GridSize == VTERM_ROWS * VTERM_COLS

\* n distinct printable characters: '!', '"', '#', ...
Text(n) == [j \in 1 .. n |-> 33 + ((j - 1) % 94)]

PrintLens ==
    {1, 2, VTERM_COLS - 1, VTERM_COLS, VTERM_COLS + 1, GridSize - 1}
    \cup {GridSize + k : k \in 0 .. (VTERM_COLS + 1)}

\* red on green, then the cursor to row 2 column 5, the last cell, the last row
PrintStarts ==
    { CsiSeq(<<51, 49, 59, 52, 50>>, 109) \o CsiSeq(<<50, 59, 53>>, 72),
      CsiSeq(DecStr(VTERM_ROWS) \o <<59>> \o DecStr(VTERM_COLS), 72),
      CsiSeq(DecStr(VTERM_ROWS), 72) }

PrintVTs == {0, 1}

InitPrint == InitWith(MaxPrintCalls)

NextPrint ==
    \/ \E id \in PrintVTs, n \in PrintLens : WriteCall(id, Text(n))
    \/ \E id \in PrintVTs, data \in PrintStarts : WriteCall(id, data)
    \/ \E id \in PrintVTs : PutcharCall(id, 88)
    \/ \E id \in PrintVTs : ClearCall(id)

SpecPrint == InitPrint /\ [][NextPrint]_vars

IsPrintable(data) == \A j \in 1 .. Len(data) : data[j] >= 32 /\ data[j] <= 126

\* the last call printed plain text on a session whose parser was in NORMAL state
Printed == /\ call.op \in {"write", "putchar"}
           /\ IsPrintable(call.data)
           /\ call.pre.escape_state = 0

\* the logical state that placing data left to right, top to bottom from the
\* cursor of view v gives, wrapping at column COLS and scrolling at row ROWS
Placed(v, data) ==
    LET pos0 == v.cursor_y * VTERM_COLS + v.cursor_x
        n == Len(data)
        over == ((pos0 + n) \div VTERM_COLS) - VTERM_ROWS + 1
        scrolls == IF over > 0 THEN over ELSE 0
        Virtual(idx) == IF idx >= pos0 /\ idx < pos0 + n
                        THEN [ch |-> data[idx - pos0 + 1], attr |-> v.current_attr]
                        ELSE IF idx < GridSize THEN v.grid[idx]
                        ELSE Blank
        lin == (pos0 + n) - scrolls * VTERM_COLS
    IN [grid |-> [i \in GridIdx |-> Virtual(i + scrolls * VTERM_COLS)],
        cursor_x |-> lin % VTERM_COLS,
        cursor_y |-> lin \div VTERM_COLS,
        current_attr |-> v.current_attr]

\* C8: after N printable bytes written to a session in NORMAL state, its grid
\* is the old grid with the N characters placed left to right, top to bottom
\* from the old cursor in the current attribute, wrapped exactly at column
\* COLS and scrolled one row exactly at row ROWS; nothing else changed.
C8_PrintableFill ==
    Printed => LogicalView(World, call.id) = Placed(call.pre.view, call.data)

\* a grid's worth of text written from row 2 column 5 in red on green: it
\* wrapped, scrolled twice, and the cursor is back in column 5, on the last row
C8_Witness ==
    /\ Printed /\ call.op = "write" /\ Len(call.data) = GridSize
    /\ call.pre.view.cursor_x = 4 /\ call.pre.view.cursor_y = 1
    /\ call.pre.view.current_attr = VTERM_ATTR(1, 2)
    /\ s_vterms[call.id].cursor_x = 4 /\ s_vterms[call.id].cursor_y = VTERM_ROWS - 1
    /\ mem[s_vterms[call.id].cells][4] = [ch |-> 33 + VTERM_COLS,
                                           attr |-> VTERM_ATTR(1, 2)]

\* the last call wrote GridSize + k characters, k >= 1, to a freshly cleared session
Overfilled ==
    /\ Printed /\ call.op = "write" /\ Len(call.data) > GridSize
    /\ call.pre.view = [grid |-> BlankGrid, cursor_x |-> 0, cursor_y |-> 0,
                        current_attr |-> VTERM_DEFAULT_ATTR]

\* the number of characters, not blanks, on the final row of session i
FinalRowChars(i) ==
    Cardinality({c \in 0 .. (VTERM_COLS - 1) :
                    mem[s_vterms[i].cells][(VTERM_ROWS - 1) * VTERM_COLS + c].ch # 32})

\* C9 as stated: after GridSize + k characters on a fresh session the first k
\* rows of the input are scrolled off (the top row shows input row k) and the
\* final row holds k characters.
C9_AsStated ==
    Overfilled =>
        LET k == Len(call.data) - GridSize
        IN /\ mem[s_vterms[call.id].cells][0].ch = ChAt(call.data, k * VTERM_COLS + 1)
           /\ FinalRowChars(call.id) = k

\* C9: after GridSize + k characters (k >= 1) on a fresh session, k \div COLS + 1
\* rows of the input, the oldest, are scrolled off: rows 0 .. ROWS-2 show the
\* last ROWS-1 full rows of the input, and the final row shows the k % COLS
\* characters after them, then blanks.
C9_ScrollDropsOldest ==
    Overfilled =>
        LET k == Len(call.data) - GridSize
            off == ((k \div VTERM_COLS) + 1) * VTERM_COLS
        IN \A i \in GridIdx :
              mem[s_vterms[call.id].cells][i].ch =
                  IF i < (VTERM_ROWS - 1) * VTERM_COLS + (k % VTERM_COLS)
                  THEN call.data[off + i + 1] ELSE 32

\* GridSize + COLS + 1 characters written to a fresh session: two rows were
\* scrolled off and one character stands on the final row
C9_Witness ==
    /\ Overfilled /\ Len(call.data) = GridSize + VTERM_COLS + 1
    /\ mem[s_vterms[call.id].cells][0].ch = 33 + 2 * VTERM_COLS
    /\ FinalRowChars(call.id) = 1
    /\ s_vterms[call.id].cursor_x = 1 /\ s_vterms[call.id].cursor_y = VTERM_ROWS - 1

(***************************************************************************)
(* Keyboard scenarios: key sequences fed byte by byte while time passes.   *)
(***************************************************************************)
MaxKeys == 2
MaxTick == 3

\* the tick counter advances between two calls
Tick ==
    /\ fault = "none"
    /\ tick < MaxTick
    /\ tick' = tick + 1
    /\ UNCHANGED <<mem, s_vterms, s_active_vt, fault, s_esc_buf, s_esc_start, s_task_map, s_on_switch_cb, s_escape, ctx, ref,
                   call, kbd, budget>>

\* the encodings of "switch to K" the terminals send
HotkeyScripts(K) ==
    { <<ESC, 79, 80 + K>>,
      <<ESC, 79, 53, 80 + K>>,
      <<ESC, 91, 49, 59, 53, 80 + K>>,
      <<ESC, 91, 49, 49 + K, 126>>,
      <<ESC, 91, 49, 49 + K, 59, 53, 126>>,
      <<ESC, 91, 49, 49 + K, 59, 49, 51, 126>>,
      <<ESC, 91, 52 + ((9 + K) \div 10), 48 + ((9 + K) % 10), 59, 53, 117>> }

\* the letter x, cursor up, a lone ESC, and ESC [ with ten digits, longer
\* than any sequence the detector keeps
OtherKeys ==
    { <<120>>, <<ESC, 91, 65>>, <<ESC>>,
      <<ESC, 91, 49, 50, 51, 52, 53, 54, 55, 56, 57, 48>> }

\* ESC [ 1 1 a ~ : a byte that is no digit, ';' or '~' stands after ESC [ 1 1
MalformedKeys == { <<ESC, 91, 49, 49, 97, 126>> }

InitHotkey == InitWith(MaxKeys)

NextHotkey ==
    \/ \E K \in VTs : \E k \in HotkeyScripts(K) : FeedFirst(k)
    \/ \E k \in OtherKeys \cup MalformedKeys : FeedFirst(k)
    \/ FeedNext
    \/ Tick
    \/ \E id \in VTs : SwitchCall(id)

SpecHotkey == InitHotkey /\ [][NextHotkey]_vars

\* the last call fed the last byte of the key sequence, which began on an
\* empty hotkey buffer and had no byte come after the timeout
FedInTime(script) ==
    call.op = "feed" /\ kbd.script = script /\ kbd.pos = Len(script) /\ kbd.clean

\* C10: a recognized encoding of "switch to K", fed in time from an empty
\* hotkey buffer, puts no byte in any input queue, makes K the active
\* session and leaves the hotkey buffer empty.
C10_HotkeyConsumed ==
    \A K \in VTs : \A script \in HotkeyScripts(K) :
        FedInTime(script) => kbd.sent = 0 /\ s_active_vt = K /\ s_esc_buf = <<>>

\* ESC [ 1 2 ; 5 ~ (Ctrl+F2), its bytes spread over two ticks, has switched
\* from session 0 to session 1
C10_Witness ==
    /\ FedInTime(<<ESC, 91, 49, 50, 59, 53, 126>>)
    /\ call.r = 1
    /\ tick - s_esc_start = HOTKEY_TIMEOUT_TICKS
    /\ s_active_vt = 1 /\ s_vterms[1].cells = IRAM /\ s_vterms[0].cells = 0
    /\ kbd.sent = 0 /\ s_esc_buf = <<>>

\* C11: once ESC [ 1 1 has been followed by a byte that is not '~', a digit
\* or ';', no later call of the sequence, fed in time from an empty hotkey
\* buffer, reports a hotkey.
C11_MalformedNeverHotkey ==
    \A script \in MalformedKeys :
        (call.op = "feed" /\ kbd.script = script /\ kbd.clean /\ kbd.pos >= 5)
            => call.r = 0

\* C12: when a key sequence has been fed whole and left bytes in the hotkey
\* buffer (a lone ESC), they are delivered once the timeout has elapsed, with
\* no further byte fed: the buffer is never older than the timeout.
C12_BufferedByteDelivered ==
    (kbd.pos = Len(kbd.script) /\ s_esc_buf # <<>>)
        => (tick - s_esc_start) <= HOTKEY_TIMEOUT_TICKS

\* C13: the bytes queued since a key sequence began, followed by the bytes
\* still buffered, are the bytes fed (with those buffered at its beginning)
\* less the bytes of matched hotkeys, in arrival order; every queued byte
\* went to one queue, once.
C13_DeliveredInOrder ==
    /\ kbd.log \o s_esc_buf = kbd.kept
    /\ kbd.sent = Len(kbd.log)

\* ESC was buffered, the timeout passed, and '[' came: the flush delivered
\* ESC and the call then delivered '[' itself
C13_Witness ==
    /\ call.op = "feed" /\ call.data = <<91>> /\ call.held = <<>>
    /\ kbd.script = <<ESC, 91, 65>> /\ kbd.pos = 2 /\ ~kbd.clean
    /\ call.routed = <<ESC, 91>> /\ kbd.log = <<ESC, 91>>
    /\ s_vterms[s_active_vt].input_queue = <<ESC, 91>>
    /\ s_esc_buf = <<>>

\* the byte a call fed was queued by that call, after the bytes held back
\* before it
HotkeyByteRouted ==
    call.routed = call.flushed \o call.held \o call.data

\* the byte a call fed completed a hotkey sequence
HotkeyCompleted ==
    call.held # <<>> /\ match_vt_hotkey(Append(call.held, call.data[1])) >= 0

HOTKEY_MAX_LEN == 10

\* C40: the scratch buffer holds at most 10 bytes whenever
\* vterm_input_feed has returned; inside a call it holds at most 11, the
\* bytes held after the timeout check and the one appended, so the append
\* always finds room in the 16-byte buffer and discards nothing.
C40_ScratchBounded ==
    /\ Len(s_esc_buf) <= HOTKEY_MAX_LEN
    /\ call.op = "feed" =>
          /\ Len(call.held) + 1 <= HOTKEY_MAX_LEN + 1
          /\ Len(call.held) < S_ESC_BUF_SIZE - 1
          /\ HOTKEY_MAX_LEN + 1 < S_ESC_BUF_SIZE
          \* nothing was discarded: the buffer or the bytes sent on end with the byte fed
          /\ (call.held # <<>> /\ call.r = 0) =>
                \/ s_esc_buf = Append(call.held, call.data[1])
                \/ s_esc_buf = <<>> /\ call.routed = Append(call.held, call.data[1])

\* the eleventh byte of ESC [ 1 2 3 4 5 6 7 8 9 was fed with ten bytes held:
\* the buffer reached 11 bytes inside the call and all 11 were sent on
C40_Witness ==
    /\ call.op = "feed" /\ call.data = <<57>> /\ call.r = 0
    /\ call.held = <<ESC, 91, 49, 50, 51, 52, 53, 54, 55, 56>>
    /\ call.routed = <<ESC, 91, 49, 50, 51, 52, 53, 54, 55, 56, 57>>
    /\ s_esc_buf = <<>>

(***************************************************************************)
(* Input queue scenarios: a reader in context 1 calls vterm_getchar on     *)
(* session 0 while bytes are sent to it and keys are fed; the queue starts *)
(* empty or a few bytes short of full.                                     *)
(***************************************************************************)
MaxQueueCalls == 4
TICK_RATE_HZ == 100

\* (unsigned char)c
UnsignedChar(c) == c % 256

pdMS_TO_TICKS(ms) == (ms * TICK_RATE_HZ) \div 1000

\* mutant: the newest byte is received
vterm_getchar_newest(W, vt_id) ==
    IF ~ValidVt(vt_id) \/ W.vts[vt_id].input_queue = <<>> THEN [W |-> W, r |-> -1]
    ELSE [W |-> [W EXCEPT !.vts[vt_id].input_queue = SubSeq(@, 1, Len(@) - 1)],
          r |-> UnsignedChar(W.vts[vt_id].input_queue[Len(W.vts[vt_id].input_queue)])]

\* vterm_getchar at the moment xQueueReceive returns: the oldest byte, or -1
\* when the index is bad or the wait ended on an empty queue
vterm_getchar(W, vt_id) ==
    IF ~ValidVt(vt_id) \/ W.vts[vt_id].input_queue = <<>> THEN [W |-> W, r |-> -1]
    ELSE [W |-> [W EXCEPT !.vts[vt_id].input_queue = Tail(@)],
          r |-> UnsignedChar(Head(W.vts[vt_id].input_queue))]

\* the record of a finished vterm_getchar: first is the oldest byte queued
\* when the call began (-1: none), blocked whether the caller had to wait,
\* waited for how many ticks, arrived whether a byte was sent meanwhile
GetcharDone(vt_id, timeout_ms, r, first, blocked, waited, arrived) ==
    [op |-> "getchar", id |-> vt_id, timeout |-> timeout_ms, r |-> r, first |-> first,
     blocked |-> blocked, waited |-> waited, arrived |-> arrived, cb |-> <<>>]

\* mutant: the caller waits with the session's mutex taken
GetcharCall_locked(k, vt_id, timeout_ms) ==
    LET q == IF ValidVt(vt_id) THEN s_vterms[vt_id].input_queue ELSE <<>>
        g == vterm_getchar(World, vt_id)
    IN /\ CanStart(k)
       /\ budget > 0
       /\ budget' = budget - 1
       /\ IF ~ValidVt(vt_id) \/ q # <<>> \/ (timeout_ms >= 0 /\ pdMS_TO_TICKS(timeout_ms) = 0)
          THEN /\ SetWorld(g.W)
               /\ call' = GetcharDone(vt_id, timeout_ms, g.r,
                                      IF q = <<>> THEN -1 ELSE Head(q), FALSE, 0, FALSE)
               /\ UNCHANGED <<s_esc_buf, s_esc_start, s_task_map, s_on_switch_cb, s_escape, tick, ctx, ref, kbd>>
          ELSE /\ SetCtx(k, [pc |-> "getchar", id |-> vt_id, timeout |-> timeout_ms,
                             t0 |-> tick, arrived |-> FALSE])
               /\ s_vterms' = [s_vterms EXCEPT ![vt_id].mutex = k]
               /\ call' = [op |-> "wait", id |-> vt_id]
               /\ UNCHANGED <<mem, s_active_vt, fault, s_esc_buf, s_esc_start, s_task_map, s_on_switch_cb, s_escape,
                              tick, ref, kbd>>

\* vterm_getchar(vt_id, timeout_ms) begins: it returns at once on a bad
\* index, a queued byte or a zero wait, and blocks in xQueueReceive otherwise
GetcharCall(k, vt_id, timeout_ms) ==
    LET q == IF ValidVt(vt_id) THEN s_vterms[vt_id].input_queue ELSE <<>>
        g == vterm_getchar(World, vt_id)
    IN /\ CanStart(k)
       /\ budget > 0
       /\ budget' = budget - 1
       /\ IF ~ValidVt(vt_id) \/ q # <<>> \/ (timeout_ms >= 0 /\ pdMS_TO_TICKS(timeout_ms) = 0)
          THEN /\ SetWorld(g.W)
               /\ call' = GetcharDone(vt_id, timeout_ms, g.r,
                                      IF q = <<>> THEN -1 ELSE Head(q), FALSE, 0, FALSE)
               /\ UNCHANGED <<s_esc_buf, s_esc_start, s_task_map, s_on_switch_cb, s_escape, tick, ctx, ref, kbd>>
          ELSE /\ SetCtx(k, [pc |-> "getchar", id |-> vt_id, timeout |-> timeout_ms,
                             t0 |-> tick, arrived |-> FALSE])
               /\ call' = [op |-> "wait", id |-> vt_id]
               /\ UNCHANGED <<mem, s_vterms, s_active_vt, fault, s_esc_buf, s_esc_start, s_task_map, s_on_switch_cb, s_escape,
                              tick, ref, kbd>>

\* a byte has reached the queue the caller is blocked on
GetcharWake(k) ==
    LET g == vterm_getchar(World, ctx[k].id)
    IN /\ fault = "none"
       /\ ctx[k].pc = "getchar"
       /\ s_vterms[ctx[k].id].input_queue # <<>>
       /\ SetWorld(g.W)
       /\ call' = GetcharDone(ctx[k].id, ctx[k].timeout, g.r, -1, TRUE,
                              tick - ctx[k].t0, ctx[k].arrived)
       /\ SetCtx(k, Idle)
       /\ UNCHANGED <<s_esc_buf, s_esc_start, s_task_map, s_on_switch_cb, s_escape, tick, ref, kbd, budget>>

\* the wait has lasted timeout_ms and the queue is still empty
GetcharTimeout(k) ==
    LET g == vterm_getchar(World, ctx[k].id)
    IN /\ fault = "none"
       /\ ctx[k].pc = "getchar"
       /\ ctx[k].timeout >= 0
       /\ tick - ctx[k].t0 >= pdMS_TO_TICKS(ctx[k].timeout)
       /\ s_vterms[ctx[k].id].input_queue = <<>>
       /\ SetWorld(g.W)
       /\ call' = GetcharDone(ctx[k].id, ctx[k].timeout, g.r, -1, TRUE,
                              tick - ctx[k].t0, ctx[k].arrived)
       /\ SetCtx(k, Idle)
       /\ UNCHANGED <<s_esc_buf, s_esc_start, s_task_map, s_on_switch_cb, s_escape, tick, ref, kbd, budget>>

\* vterm_send_input(vt_id, c), from a task or interrupt that is not waiting
SendInputCall(vt_id, c) ==
    /\ fault = "none"
    /\ budget > 0
    /\ SetWorld(vterm_send_input(World, vt_id, c))
    /\ call' = [op |-> "send", id |-> vt_id, data |-> <<c>>, cb |-> <<>>]
    /\ ctx' = [k \in Ctx |->
                 IF ctx[k].pc = "getchar" /\ ctx[k].id = vt_id
                 THEN [ctx[k] EXCEPT !.arrived = TRUE] ELSE ctx[k]]
    /\ budget' = budget - 1
    /\ UNCHANGED <<s_esc_buf, s_esc_start, s_task_map, s_on_switch_cb, s_escape, tick, ref, kbd>>

\* n bytes, all different from their neighbours
Fill(n) == [i \in 1 .. n |-> 33 + (i % 90)]

QueueFills == {0, INPUT_QUEUE_SIZE - 2, INPUT_QUEUE_SIZE - 1}
QueueBytes == {65, 200}
QueueTimeouts == {-1, 0, 10}
QueueKeys == { <<120>>, <<ESC, 91, 65>> }

\* the state after vterm_init and n accepted vterm_send_input(0, .) calls
InitQueue ==
    \E n \in QueueFills :
        /\ mem = vterm_init.mem
        /\ s_vterms = [vterm_init.vts EXCEPT ![0].input_queue = Fill(n)]
        /\ s_active_vt = vterm_init.active
        /\ fault = vterm_init.fault
        /\ s_esc_buf = <<>>
        /\ s_esc_start = 0
        /\ s_task_map = task_map_init
        /\ s_on_switch_cb = NULL
        /\ s_escape = NoEscape
        /\ tick = 0
        /\ ctx = [c \in Ctx |-> Idle]
        /\ ref = vterm_init
        /\ call = NoCall
        /\ kbd = NoKey
        /\ budget = MaxQueueCalls

NextQueue ==
    \/ \E c \in QueueBytes : SendInputCall(0, c)
    \/ \E t \in QueueTimeouts : GetcharCall(1, 0, t)
    \/ GetcharWake(1)
    \/ GetcharTimeout(1)
    \/ \E k \in QueueKeys : FeedFirst(k)
    \/ FeedNext
    \/ Tick

SpecQueue == InitQueue /\ [][NextQueue]_vars

\* C15: vterm_getchar on a valid session returns the oldest queued byte as
\* 0..255 at once, whatever the timeout, when a byte is queued; with timeout
\* 0 and an empty queue it returns -1 at once; and it returns -1 only when
\* the queue was empty, the timeout was not negative and has run out, and
\* no byte was sent to the session meanwhile.
C15_Getchar ==
    (call.op = "getchar" /\ ValidVt(call.id)) =>
        /\ call.r \in -1 .. 255
        /\ call.first >= 0 =>
              ~call.blocked /\ call.waited = 0 /\ call.r = UnsignedChar(call.first)
        /\ (call.first < 0 /\ call.timeout = 0) => ~call.blocked /\ call.r = -1
        /\ call.r = -1 =>
              /\ call.first < 0 /\ call.timeout >= 0 /\ ~call.arrived
              /\ call.waited >= pdMS_TO_TICKS(call.timeout)

\* with 62 bytes queued and two more sent, a third call has received the
\* oldest byte at once although it asked to wait for ever
C15_Witness ==
    /\ call.op = "getchar" /\ call.id = 0 /\ call.timeout = -1
    /\ ~call.blocked /\ call.first = Fill(1)[1] /\ call.r = Fill(1)[1]
    /\ Len(s_vterms[0].input_queue) = INPUT_QUEUE_SIZE - 1
    /\ s_vterms[0].input_queue[INPUT_QUEUE_SIZE - 1] = 200

\* the bytes the last call offered to the active session's queue, in order
Offered ==
    IF call.op = "send" THEN call.data
    ELSE IF call.op = "feed" THEN call.flushed \o call.held \o call.data
    ELSE <<>>

IsPrefix(a, b) == Len(a) <= Len(b) /\ SubSeq(b, 1, Len(a)) = a

\* one step's effect on the queue of session i
QueueStep(i) ==
    LET q == s_vterms[i].input_queue
        q2 == s_vterms'[i].input_queue
    IN \/ q2 = q
       \/ /\ call'.op = "getchar" /\ call'.id = i /\ q # <<>>
          /\ q2 = Tail(q) /\ call'.r = UnsignedChar(Head(q))
       \/ /\ call'.op \in {"send", "feed"}
          /\ Len(q) < INPUT_QUEUE_SIZE /\ Len(q2) <= INPUT_QUEUE_SIZE
          /\ Len(q2) > Len(q) /\ SubSeq(q2, 1, Len(q)) = q
          /\ IsPrefix(SubSeq(q2, Len(q) + 1, Len(q2)), Offered')

\* C16: a step leaves a queue as it is, or removes its oldest byte for a
\* vterm_getchar that returns it, or appends at its end, up to the
\* capacity, the first of the bytes vterm_send_input or vterm_input_feed
\* offered: on a full queue the offered bytes are dropped and the queue
\* keeps its contents.
C16_FullQueueDrops ==
    [][\A i \in VTs : QueueStep(i)]_vars

\* with 63 bytes queued, ESC [ A was fed: the flush queued ESC, which filled
\* the queue, and '[' and 'A' were dropped
C16_Witness ==
    /\ call.op = "feed" /\ call.held = <<ESC, 91>> /\ call.data = <<65>>
    /\ call.routed = <<ESC>> /\ s_esc_buf = <<>>
    /\ s_vterms[0].input_queue = Append(Fill(INPUT_QUEUE_SIZE - 1), ESC)

(***************************************************************************)
(* Index scenarios: the calls that take a session index, with indices in   *)
(* and out of range.                                                       *)
(***************************************************************************)
MaxIndexCalls == 3

BadIds == {-1, VTERM_COUNT}
IndexIds == BadIds \cup {0, 1}

InitIndex == InitWith(MaxIndexCalls)

NextIndex ==
    \/ \E id \in IndexIds : WriteCall(id, <<65, 66>>)
    \/ \E id \in IndexIds : PutcharCall(id, 90)
    \/ \E id \in IndexIds : ClearCall(id)
    \/ \E id \in IndexIds : SwitchCall(id)
    \/ \E id \in IndexIds : Serial /\ SendInputCall(id, 65)
    \/ \E id \in IndexIds : Serial /\ GetcharCall(1, id, 0)
    \/ \E id \in BadIds, t \in QueueTimeouts : Serial /\ GetcharCall(1, id, t)

SpecIndex == InitIndex /\ [][NextIndex]_vars

IndexedOps == {"write", "putchar", "clear", "send", "switch", "getchar"}

\* C17: a call of vterm_write, vterm_putchar, vterm_clear, vterm_send_input,
\* vterm_switch or vterm_getchar with an index outside [0, VTERM_COUNT)
\* changes no buffer, session, queue, active index or hotkey state and
\* invokes no callback; vterm_getchar returns -1 without waiting.
C17_BadIndexIgnored ==
    [][(budget' # budget /\ call'.op \in IndexedOps /\ ~ValidVt(call'.id)) =>
          /\ UNCHANGED <<mem, s_vterms, s_active_vt, fault, s_esc_buf, s_esc_start, s_task_map, s_on_switch_cb, s_escape, ctx>>
          /\ call'.cb = <<>>
          /\ call'.op = "getchar" => call'.r = -1 /\ ~call'.blocked]_vars

\* "AB" was written to session 1, session 1 was switched in, and
\* vterm_clear(VTERM_COUNT) has left it all in place
C17_Witness ==
    /\ call.op = "clear" /\ call.id = VTERM_COUNT /\ budget = 0
    /\ s_active_vt = 1 /\ s_vterms[1].cells = IRAM
    /\ mem[IRAM][0].ch = 65 /\ mem[IRAM][1].ch = 66
    /\ s_vterms[1].cursor_x = 2

\* C20: a vterm_write or vterm_putchar call that changed the grid of a
\* session has invoked the render callback with that session's index.
C20_RenderNotified ==
    (call.op \in {"write", "putchar"} /\ ValidVt(call.id)
       /\ LogicalView(World, call.id).grid # call.pre.view.grid)
        => \E i \in DOMAIN call.cb : call.cb[i] = [fn |-> "s_on_render_cb", arg |-> call.id]

(***************************************************************************)
(* Task scenarios: tasks bind themselves to sessions and ask for their     *)
(* session while sessions are switched; the table starts empty or with     *)
(* one slot left.                                                          *)
(***************************************************************************)
MaxTaskCalls == 4

SetTaskCall(task, vt_id) ==
    /\ Serial
    /\ s_task_map' = vterm_set_task(s_task_map, task, vt_id)
    /\ call' = [op |-> "set_task", task |-> task, id |-> vt_id]
    /\ budget' = budget - 1
    /\ UNCHANGED <<mem, s_vterms, s_active_vt, fault, s_esc_buf, s_esc_start,
                   s_on_switch_cb, s_escape, tick, ctx, ref, kbd>>

GetTaskVtCall(task) ==
    /\ Serial
    /\ call' = [op |-> "get_task_vt", task |-> task,
                r |-> vterm_get_task_vt(s_task_map, task)]
    /\ budget' = budget - 1
    /\ UNCHANGED <<mem, s_vterms, s_active_vt, fault, s_esc_buf, s_esc_start, s_task_map, s_on_switch_cb, s_escape,
                   tick, ctx, ref, kbd>>

\* vterm_get_current_vt() called by the given task
GetCurrentVtCall(task) ==
    /\ Serial
    /\ call' = [op |-> "get_current_vt", task |-> task,
                r |-> vterm_get_current_vt(s_task_map, s_active_vt, task)]
    /\ budget' = budget - 1
    /\ UNCHANGED <<mem, s_vterms, s_active_vt, fault, s_esc_buf, s_esc_start, s_task_map, s_on_switch_cb, s_escape,
                   tick, ctx, ref, kbd>>

\* the table after tasks 1 .. n bound themselves, task i to session i mod VTERM_COUNT
Bound(n) ==
    [i \in 0 .. MAX_TASKS - 1 |->
        IF i < n THEN [task |-> i + 1, vt_id |-> (i + 1) % VTERM_COUNT]
        ELSE [task |-> NULL, vt_id |-> -1]]

TaskFills == {0, MAX_TASKS - 1}
Tasks == {1, MAX_TASKS, MAX_TASKS + 1}
\* vt_id is stored as given: -1 (unbind), two sessions, and VTERM_COUNT, the
\* first index that names no session
TaskVts == {-1, 2, 3, VTERM_COUNT}

InitTasks ==
    \E n \in TaskFills :
        /\ mem = vterm_init.mem
        /\ s_vterms = vterm_init.vts
        /\ s_active_vt = vterm_init.active
        /\ fault = vterm_init.fault
        /\ s_esc_buf = <<>>
        /\ s_esc_start = 0
        /\ s_task_map = Bound(n)
        /\ s_on_switch_cb = NULL
        /\ s_escape = NoEscape
        /\ tick = 0
        /\ ctx = [c \in Ctx |-> Idle]
        /\ ref = vterm_init
        /\ call = NoCall
        /\ kbd = NoKey
        /\ budget = MaxTaskCalls

NextTasks ==
    \/ \E task \in Tasks, v \in TaskVts : SetTaskCall(task, v)
    \/ \E task \in Tasks : GetTaskVtCall(task)
    \/ \E task \in Tasks : GetCurrentVtCall(task)
    \/ \E id \in VTs : SwitchCall(id)

SpecTasks == InitTasks /\ [][NextTasks]_vars

\* the slots that hold a binding of the task, and the free slots
SlotsOf(map, task) == {i \in DOMAIN map : map[i].task = task}
FreeSlots(map) == SlotsOf(map, NULL)
MinOf(S) == CHOOSE i \in S : \A j \in S : i <= j

\* what an upsert of (task, v) makes of the table
Upsert(map, task, v) ==
    IF SlotsOf(map, task) # {}
    THEN [i \in DOMAIN map |-> IF i \in SlotsOf(map, task)
                                THEN [task |-> task, vt_id |-> v] ELSE map[i]]
    ELSE IF FreeSlots(map) # {}
    THEN [map EXCEPT ![MinOf(FreeSlots(map))] = [task |-> task, vt_id |-> v]]
    ELSE map

\* C18: vterm_set_task(task, v) overwrites the task's entry when it has one
\* and creates no second one, else fills the first free slot, else (all
\* slots held by other tasks) changes nothing; vterm_get_task_vt(task) then
\* gives v, v and -1 in the three cases, and -1 for every task that has no
\* entry.
C18_SetTaskUpsert ==
    [][/\ (call'.op = "set_task" /\ budget' # budget) =>
            /\ s_task_map' = Upsert(s_task_map, call'.task, call'.id)
            /\ Cardinality(SlotsOf(s_task_map', call'.task)) <= 1
            /\ vterm_get_task_vt(s_task_map', call'.task) =
                   IF SlotsOf(s_task_map, call'.task) = {} /\ FreeSlots(s_task_map) = {}
                   THEN -1 ELSE call'.id
       /\ (call'.op = "get_task_vt" /\ budget' # budget) =>
            /\ SlotsOf(s_task_map, call'.task) = {} => call'.r = -1
            /\ \A i \in SlotsOf(s_task_map, call'.task) : call'.r = s_task_map[i].vt_id
      ]_vars

\* seven slots were taken, task 8 took the last one, and task 9 was refused:
\* the table holds tasks 1 .. 8 and no entry of task 9
C18_Witness ==
    /\ call.op = "set_task" /\ call.task = MAX_TASKS + 1 /\ call.id = 2
    /\ \A i \in DOMAIN s_task_map : s_task_map[i].task = i + 1
    /\ s_task_map[MAX_TASKS - 1].vt_id = 3
    /\ vterm_get_task_vt(s_task_map, MAX_TASKS + 1) = -1

\* C19: vterm_get_current_vt gives the session index the calling task is
\* bound to when it is bound to one (an index that is not negative), and
\* the active session's index otherwise.
C19_CurrentVt ==
    call.op = "get_current_vt" =>
        IF \E i \in DOMAIN s_task_map :
               s_task_map[i].task = call.task /\ s_task_map[i].vt_id >= 0
        THEN \E i \in DOMAIN s_task_map :
               s_task_map[i].task = call.task /\ call.r = s_task_map[i].vt_id
        ELSE call.r = s_active_vt

\* task 1 is bound to session 1; after switches to sessions 2 and 3 it is
\* still given session 1
C19_Witness ==
    /\ call.op = "get_current_vt" /\ call.task = 1 /\ call.r = 1
    /\ s_task_map[0] = [task |-> 1, vt_id |-> 1]
    /\ s_active_vt = 3 /\ s_vterms[2].cells = 2 /\ s_vterms[3].cells = IRAM
    /\ budget = MaxTaskCalls - 3

\* C38 (as stated): vterm_get_current_vt returns a valid session index, in
\* 0 .. VTERM_COUNT-1, after any vterm_set_task and vterm_switch calls.
C38_CurrentVtValid ==
    call.op = "get_current_vt" => call.r \in VTs

\* C38 (what the code gives): the result is a valid index or the index the
\* calling task was last bound with, and it is valid whenever every binding
\* made was to a valid index or to -1.
C38_ValidOrAsBound ==
    call.op = "get_current_vt" =>
        \/ call.r \in VTs
        \/ \E i \in DOMAIN s_task_map :
              s_task_map[i].task = call.task /\ s_task_map[i].vt_id = call.r

\* C39: no call frees or re-assigns a slot that holds a task; with the 8
\* slots held by other tasks a vterm_set_task changes nothing and
\* vterm_get_current_vt gives that task the active session; vterm_set_task
\* for a task that has a slot rebinds it in that slot and leaves it with
\* exactly one entry.
C39_SlotsNeverFreed ==
    [][/\ \A i \in DOMAIN s_task_map :
             s_task_map[i].task # NULL => s_task_map'[i].task = s_task_map[i].task
       /\ (budget' # budget /\ call'.op = "set_task"
              /\ SlotsOf(s_task_map, call'.task) = {} /\ FreeSlots(s_task_map) = {})
            => /\ s_task_map' = s_task_map
               /\ vterm_get_current_vt(s_task_map', s_active_vt', call'.task) = s_active_vt'
       /\ (budget' # budget /\ call'.op = "get_current_vt"
              /\ SlotsOf(s_task_map, call'.task) = {})
            => call'.r = s_active_vt
       /\ (budget' # budget /\ call'.op = "set_task"
              /\ SlotsOf(s_task_map, call'.task) # {})
            => /\ SlotsOf(s_task_map', call'.task) = SlotsOf(s_task_map, call'.task)
               /\ Cardinality(SlotsOf(s_task_map', call'.task)) = 1
               /\ vterm_get_task_vt(s_task_map', call'.task) = call'.id
               /\ \A i \in DOMAIN s_task_map \ SlotsOf(s_task_map, call'.task) :
                     s_task_map'[i] = s_task_map[i]
      ]_vars

\* the eighth task took the last slot, the terminal was switched to session
\* 1, and the ninth task's binding to session 3 was dropped: the table holds
\* tasks 1 .. 8 and the ninth task resolves to the active session 1
C39_Witness ==
    /\ call.op = "set_task" /\ call.task = MAX_TASKS + 1 /\ call.id = 3
    /\ \A i \in DOMAIN s_task_map : s_task_map[i].task = i + 1
    /\ s_active_vt = 1 /\ s_vterms[1].cells = IRAM
    /\ vterm_get_task_vt(s_task_map, MAX_TASKS + 1) = -1
    /\ vterm_get_current_vt(s_task_map, s_active_vt, MAX_TASKS + 1) = 1
    /\ budget = MaxTaskCalls - 3

\* with the table full, task 1 was rebound from session 1 to session 3 and
\* then to session 2: it still has the one entry in slot 0
C39_RebindWitness ==
    /\ call.op = "set_task" /\ call.task = 1 /\ call.id = 2
    /\ FreeSlots(s_task_map) = {}
    /\ SlotsOf(s_task_map, 1) = {0}
    /\ s_task_map[0].vt_id = 2
    /\ budget = MaxTaskCalls - 3

(***************************************************************************)
(* Initialization with allocations that fail.  An allocation site is a     *)
(* pair: what is allocated and for which session (0 for the shared ones).  *)
(***************************************************************************)
MaxInitFails == 2

ESP_OK == "ESP_OK"
ESP_ERR_NO_MEM == "ESP_ERR_NO_MEM"

AllocSites ==
    {<<"s_iram_buffer", 0>>, <<"s_vterms", 0>>, <<"s_task_map_mutex", 0>>}
      \cup ({"input_queue", "mutex", "storage_cells"} \X VTs)

\* the for loop of vterm_init from session i on: the queue and the mutex are
\* created and stored unchecked, the storage is checked.  failed collects the
\* allocations that were made and returned NULL, done the sessions completed.
RECURSIVE init_sessions(_, _, _)
init_sessions(fails, i, failed) ==
    LET Storage(f) ==
            IF <<"storage_cells", i>> \in fails
            THEN [r |-> ESP_ERR_NO_MEM, failed |-> f \cup {<<"storage_cells", i>>},
                  done |-> i]
            ELSE init_sessions(fails, i + 1, f)
    IN IF i >= VTERM_COUNT THEN [r |-> ESP_OK, failed |-> failed, done |-> i]
       ELSE Storage(failed \cup ({<<"input_queue", i>>, <<"mutex", i>>} \cap fails))

\* vterm_init when the allocations in fails return NULL
vterm_init_alloc(fails) ==
    IF <<"s_iram_buffer", 0>> \in fails
    THEN [r |-> ESP_ERR_NO_MEM, failed |-> {<<"s_iram_buffer", 0>>}, done |-> 0]
    ELSE IF <<"s_vterms", 0>> \in fails
    THEN [r |-> ESP_ERR_NO_MEM, failed |-> {<<"s_vterms", 0>>}, done |-> 0]
    ELSE init_sessions(fails, 0, {<<"s_task_map_mutex", 0>>} \cap fails)

\* before vterm_init: s_iram_buffer and s_vterms are NULL
InitBoot ==
    /\ mem = <<>>
    /\ s_vterms = <<>>
    /\ s_active_vt = 0
    /\ fault = "none"
    /\ s_esc_buf = <<>>
    /\ s_esc_start = 0
    /\ s_task_map = <<>>
    /\ s_on_switch_cb = NULL
    /\ s_escape = NoEscape
    /\ tick = 0
    /\ ctx = [c \in Ctx |-> Idle]
    /\ ref = <<>>
    /\ call = NoCall
    /\ kbd = NoKey
    /\ budget = 1

\* one call of vterm_init.  When it returns ESP_OK the grids, cursors and the
\* active index are those of vterm_init; the handles that are NULL are in the
\* record of the call.
VtermInitCall(fails) ==
    LET Done(res) ==
            /\ call' = [op |-> "vterm_init", fails |-> fails, r |-> res.r,
                        failed |-> res.failed, done |-> res.done]
            /\ IF res.r = ESP_OK
               THEN /\ mem' = vterm_init.mem
                    /\ s_vterms' = vterm_init.vts
                    /\ ref' = vterm_init
               ELSE UNCHANGED <<mem, s_vterms, ref>>
            /\ s_task_map' = IF res.failed \cap {<<"s_iram_buffer", 0>>, <<"s_vterms", 0>>} = {}
                             THEN task_map_init ELSE s_task_map
    IN /\ budget > 0
       /\ budget' = budget - 1
       /\ Done(vterm_init_alloc(fails))
       /\ UNCHANGED <<s_active_vt, fault, s_esc_buf, s_esc_start, s_on_switch_cb, s_escape, tick, ctx,
                      kbd>>

NextBoot ==
    \E fails \in SUBSET AllocSites :
        Cardinality(fails) <= MaxInitFails /\ VtermInitCall(fails)

SpecBoot == InitBoot /\ [][NextBoot]_vars

\* C22: vterm_init returns failure whenever an allocation it makes fails (the
\* fast buffer, the session array, a backing grid, an input queue, a session
\* mutex, the task-table lock), and returns success only when all
\* VTERM_COUNT sessions are fully initialized.
C22_InitFailsOnAnyFailure ==
    call.op = "vterm_init" =>
        /\ call.failed # {} => call.r = ESP_ERR_NO_MEM
        /\ call.r = ESP_OK => call.done = VTERM_COUNT /\ call.failed = {}

\* what the code does guarantee: a failed fast buffer, session array or
\* backing grid makes vterm_init fail, and success means every session was
\* visited and every grid allocated
C22_CheckedAllocations ==
    call.op = "vterm_init" =>
        /\ (\E site \in call.failed :
               site[1] \in {"s_iram_buffer", "s_vterms", "storage_cells"})
              => call.r = ESP_ERR_NO_MEM
        /\ call.r = ESP_OK =>
              /\ call.done = VTERM_COUNT
              /\ \A i \in VTs : <<"storage_cells", i>> \notin call.failed

(***************************************************************************)
(* CSI scenarios: whole sequences written to the active session and to one *)
(* that is not active.                                                     *)
(***************************************************************************)
MaxCsiCalls == 2

CsiVTs == {0, 1}

\* ESC [ 6 n
StatusQuery == CsiSeq(<<54>>, 110)

\* ESC [ 2 J
ClearScreen == CsiSeq(<<50>>, 74)

CsiText == { <<65>>, <<10>>, <<65, 10, 66>> }

\* ESC [ r ; c H followed by the printable character X
PosThenChar(r, c) == CsiSeq(DecStr(r) \o <<59>> \o DecStr(c), 72) \o <<88>>

\* ESC [ H followed by X
PosOmitted == CsiSeq(<<>>, 72) \o <<88>>

PosRows == {1, 2, VTERM_ROWS, VTERM_ROWS + 1, INT_MAX}
PosCols == {1, 3, VTERM_COLS, VTERM_COLS + 1, INT_MAX}

PosInputs == {PosThenChar(r, c) : r \in PosRows, c \in PosCols} \cup {PosOmitted}

\* ESC [ 31 m and ESC [ 1 m, apart and in one sequence, and ESC [ 0 m
Red == CsiSeq(<<51, 49>>, 109)
Bright == CsiSeq(<<49>>, 109)
BrightRed == CsiSeq(<<49, 59, 51, 49>>, 109)
SgrReset == CsiSeq(<<48>>, 109)
RedThenBright == Red \o Bright
BrightThenRed == Bright \o Red

\* ESC [ 31 m ESC [ 1 m X, and ESC [ 0 m Y
RedBrightX == RedThenBright \o <<88>>
ResetY == SgrReset \o <<89>>

SgrInputs == {Red, Bright, BrightRed, RedThenBright, BrightThenRed, RedBrightX, ResetY}

\* ESC [ n A / B / C / D for the counts n, and with n omitted
MoveCounts == {0, 1, 2, INT_MAX}
MoveFinals == {65, 66, 67, 68}
MoveBy(n, final) == CsiSeq(DecStr(n), final)
MoveOmitted(final) == CsiSeq(<<>>, final)

MoveInputs == {MoveBy(n, final) : n \in MoveCounts, final \in MoveFinals}
                \cup {MoveOmitted(final) : final \in MoveFinals}

CsiInputs ==
    CsiText \cup {StatusQuery, ClearScreen} \cup PosInputs \cup SgrInputs \cup MoveInputs

InitCsi == InitWith(MaxCsiCalls)

NextCsi == \E id \in CsiVTs, data \in CsiInputs : WriteCall(id, data)

SpecCsi == InitCsi /\ [][NextCsi]_vars

\* the same calls with the sequences that report, clear and colour
MaxScreenCalls == 3

ScreenInputs ==
    CsiText \cup {StatusQuery, ClearScreen} \cup SgrInputs
      \cup {PosThenChar(2, 3), PosThenChar(INT_MAX, INT_MAX)}

InitScreen == InitWith(MaxScreenCalls)

NextScreen ==
    \/ \E id \in CsiVTs, data \in ScreenInputs : WriteCall(id, data)
    \/ \E id \in CsiVTs : ClearCall(id)

SpecScreen == InitScreen /\ [][NextScreen]_vars

\* a step that is a vterm_write of data, begun with the parser of the
\* written session in its normal state and ended without a fault
WroteFromNormal(data) ==
    /\ budget' # budget
    /\ call'.op = "write" /\ call'.data = data
    /\ s_vterms[call'.id].escape_state = 0
    /\ fault' = "none"

\* ESC [ row ; col R
CursorReport(y, x) == <<ESC, 91>> \o DecStr(y + 1) \o <<59>> \o DecStr(x + 1) \o <<82>>

\* C23: writing ESC [ 6 n to a session changes no cell and appends
\* ESC [ cursor_y+1 ; cursor_x+1 R, with the cursor of the written session,
\* to the input queue of the active session (which has room for it), also
\* when the written session is not the active one; no other queue changes.
C23_StatusReport ==
    [][LET Appended(report) ==
               Len(s_vterms[s_active_vt].input_queue) + Len(report) <= INPUT_QUEUE_SIZE
                 => /\ mem' = mem
                    /\ \A i \in VTs :
                          s_vterms'[i].input_queue =
                              IF i = s_active_vt THEN s_vterms[i].input_queue \o report
                              ELSE s_vterms[i].input_queue
       IN WroteFromNormal(StatusQuery)
            => Appended(CursorReport(s_vterms[call'.id].cursor_y,
                                     s_vterms[call'.id].cursor_x))]_vars

\* session 1, not active, with its cursor at row 1, column 1 after "A\nB",
\* was asked: the active session 0, whose cursor is at the origin, has
\* ESC [ 2 ; 2 R in its queue
C23_Witness ==
    /\ call.op = "write" /\ call.data = StatusQuery /\ call.id = 1
    /\ s_active_vt = 0
    /\ s_vterms[1].cursor_y = 1 /\ s_vterms[1].cursor_x = 1
    /\ s_vterms[0].cursor_y = 0 /\ s_vterms[0].cursor_x = 0
    /\ s_vterms[0].input_queue = <<ESC, 91, 50, 59, 50, 82>>
    /\ s_vterms[1].input_queue = <<>>

AtMost(v, limit) == IF v > limit THEN limit ELSE v

\* the cell of session id at column x, row y after the step
CellAfter(id, x, y) == mem'[s_vterms'[id].cells][y * VTERM_COLS + x]

\* after the step session id shows X, in the attribute the write began with, at (x, y)
ShowsX(id, x, y) ==
    CellAfter(id, x, y) = [ch |-> 88, attr |-> s_vterms[id].current_attr]

\* C24 as stated: for all r, c >= 1, writing ESC [ r ; c H and then one
\* printable character leaves that character at column min(c, COLS) - 1 and
\* row min(r, ROWS) - 1; with the parameters omitted, at the origin.
C24_AsStated ==
    [][/\ \A r \in PosRows, c \in PosCols :
             WroteFromNormal(PosThenChar(r, c))
               => ShowsX(call'.id, AtMost(c, VTERM_COLS) - 1, AtMost(r, VTERM_ROWS) - 1)
       /\ WroteFromNormal(PosOmitted) => ShowsX(call'.id, 0, 0)]_vars

\* C24, amended: for 1 <= r, c <= INT_MAX the character is stored at column
\* min(c, COLS) - 1, row min(r, ROWS) - 1 and the cursor moves on; when that
\* cell is the last one of the grid (r >= ROWS and c >= COLS) the cursor
\* wraps at once, the grid scrolls, and the character is left one row
\* higher above a blank last row.  With the parameters omitted the
\* character is stored at the origin.
C24_PlacedThenWrapped ==
    [][LET Stored(id, x, y) ==
               IF x = VTERM_COLS - 1 /\ y = VTERM_ROWS - 1
               THEN /\ ShowsX(id, x, y - 1)
                    /\ \A i \in 0 .. (VTERM_COLS - 1) : CellAfter(id, i, y) = Blank
                    /\ s_vterms'[id].cursor_x = 0 /\ s_vterms'[id].cursor_y = y
               ELSE /\ ShowsX(id, x, y)
                    /\ s_vterms'[id].cursor_x = (x + 1) % VTERM_COLS
                    /\ s_vterms'[id].cursor_y = IF x = VTERM_COLS - 1 THEN y + 1 ELSE y
       IN /\ \A r \in PosRows, c \in PosCols :
                WroteFromNormal(PosThenChar(r, c))
                  => Stored(call'.id, AtMost(c, VTERM_COLS) - 1, AtMost(r, VTERM_ROWS) - 1)
          /\ WroteFromNormal(PosOmitted) => Stored(call'.id, 0, 0)]_vars

\* ESC [ ROWS+1 ; COLS+1 H X was written to session 1: the X is in the last
\* column of the row above the last, and the cursor at the start of the last row
C24_Witness ==
    /\ call.op = "write" /\ call.id = 1 /\ fault = "none"
    /\ call.data = PosThenChar(VTERM_ROWS + 1, VTERM_COLS + 1)
    /\ call.pre.escape_state = 0
    /\ mem[s_vterms[1].cells][(VTERM_ROWS - 2) * VTERM_COLS + VTERM_COLS - 1].ch = 88
    /\ s_vterms[1].cursor_x = 0 /\ s_vterms[1].cursor_y = VTERM_ROWS - 1

\* C26: from any session state with the parser in its normal state, writing
\* ESC [ 2 J, and likewise calling vterm_clear, leaves the cursor at (0,0) and
\* each of the ROWS*COLS cells a space with the default attribute, in the
\* fast buffer when the session is active and in its backing storage when it
\* is not; no other buffer changes.
C26_ClearScreen ==
    [][LET Cleared(id) ==
               /\ s_vterms'[id].cursor_x = 0 /\ s_vterms'[id].cursor_y = 0
               /\ s_vterms'[id].cells = IF id = s_active_vt THEN IRAM ELSE id
               /\ \A b \in BufIds :
                     mem'[b] = IF b = s_vterms'[id].cells THEN BlankGrid ELSE mem[b]
       IN (\/ WroteFromNormal(ClearScreen)
           \/ (budget' # budget /\ call'.op = "clear" /\ fault' = "none"))
            => Cleared(call'.id)]_vars

\* ESC [ 2 J was written to session 1, not active, which showed text and had
\* its cursor on row 1: its backing storage is blank and the cursor at the origin
C26_Witness ==
    /\ call.op = "write" /\ call.data = ClearScreen /\ call.id = 1
    /\ call.pre.escape_state = 0
    /\ call.pre.view.grid # BlankGrid /\ call.pre.view.cursor_y = 1
    /\ s_active_vt = 0 /\ s_vterms[1].cells = 1
    /\ mem[1] = BlankGrid
    /\ s_vterms[1].cursor_x = 0 /\ s_vterms[1].cursor_y = 0

\* the cell of session id at column x, row y before the step
CellBefore(id, x, y) == mem[s_vterms[id].cells][y * VTERM_COLS + x]

\* the rows the grid scrolls when one character is stored at the cursor
ScrollsAt(id) ==
    IF s_vterms[id].cursor_x = VTERM_COLS - 1 /\ s_vterms[id].cursor_y = VTERM_ROWS - 1
    THEN 1 ELSE 0

\* the cell that holds, after the step, the character stored at the cursor
Landed(id) ==
    CellAfter(id, s_vterms[id].cursor_x, s_vterms[id].cursor_y - ScrollsAt(id))

\* every cell but the one at the cursor is as before, one row up if the grid scrolled
OthersKept(id) ==
    \A x \in 0 .. (VTERM_COLS - 1), y \in ScrollsAt(id) .. (VTERM_ROWS - 1) :
        (x # s_vterms[id].cursor_x \/ y # s_vterms[id].cursor_y)
          => CellAfter(id, x, y - ScrollsAt(id)) = CellBefore(id, x, y)

\* C25: from the default attribute, ESC [ 31 m, ESC [ 1 m and a printable
\* character give a cell with foreground 9 (red with the bright flag) and
\* background 0; ESC [ 0 m after it makes the next character use the default
\* attribute and changes no cell already written.
C25_BrightRedThenReset ==
    [][/\ (WroteFromNormal(RedBrightX)
             /\ s_vterms[call'.id].current_attr = VTERM_DEFAULT_ATTR)
            => /\ Landed(call'.id) = [ch |-> 88, attr |-> VTERM_ATTR(9, 0)]
               /\ OthersKept(call'.id)
       /\ WroteFromNormal(ResetY)
            => /\ Landed(call'.id) = [ch |-> 89, attr |-> VTERM_DEFAULT_ATTR]
               /\ s_vterms'[call'.id].current_attr = VTERM_DEFAULT_ATTR
               /\ OthersKept(call'.id)]_vars

\* session 0 got ESC [ 31 m ESC [ 1 m X and then ESC [ 0 m Y: the X is still
\* bright red on black, the Y is in the default attribute
C25_Witness ==
    /\ call.op = "write" /\ call.data = ResetY /\ call.id = 0
    /\ call.pre.view.grid[0] = [ch |-> 88, attr |-> 9]
    /\ call.pre.view.current_attr = 9
    /\ mem[IRAM][0] = [ch |-> 88, attr |-> 9]
    /\ mem[IRAM][1] = [ch |-> 89, attr |-> VTERM_DEFAULT_ATTR]
    /\ s_vterms[0].current_attr = VTERM_DEFAULT_ATTR

\* C29: code 1 sets a bright flag that lasts until code 22 or 0, and a later
\* code 30-37, in the same sequence or in a later one, is combined with it:
\* ESC [ 1 m ESC [ 31 m, ESC [ 31 m ESC [ 1 m and ESC [ 1 ; 31 m all leave
\* the foreground 9 (red OR 8) and the background as it was.
C29_BrightFlagLasts ==
    [][\A data \in {BrightThenRed, RedThenBright, BrightRed} :
          WroteFromNormal(data)
            => s_vterms'[call'.id].current_attr
                 = VTERM_ATTR(9, VTERM_ATTR_BG(s_vterms[call'.id].current_attr))]_vars

\* what the code does: the flag lives for one sequence, so red after bright
\* in a sequence of its own is plain red
C29_FlagPerSequence ==
    [][/\ \A data \in {RedThenBright, BrightRed} :
             WroteFromNormal(data)
               => s_vterms'[call'.id].current_attr
                    = VTERM_ATTR(9, VTERM_ATTR_BG(s_vterms[call'.id].current_attr))
       /\ \A data \in {BrightThenRed, Red} :
             WroteFromNormal(data)
               => s_vterms'[call'.id].current_attr
                    = VTERM_ATTR(1, VTERM_ATTR_BG(s_vterms[call'.id].current_attr))]_vars

\* C30: ESC [ n A / B / C / D move the cursor up / down / right / left by
\* N (1 when n is omitted or below 1) and stop at the edge of the grid, for
\* every N the digits encode, INT_MAX included; no cell changes.
C30_MovesClamp ==
    [][LET Inside(id) == InGrid(s_vterms[id].cursor_x, s_vterms[id].cursor_y)
           \* v - N, not below 0, and v + N, not above limit, for v in the grid
           Back(v, N) == IF N >= v THEN 0 ELSE v - N
           Forth(v, N, limit) == IF N >= limit - v THEN limit ELSE v + N
           Moved(id, final, N) ==
               /\ mem' = mem
               /\ s_vterms'[id].cursor_y =
                     CASE final = 65 -> Back(s_vterms[id].cursor_y, N)
                       [] final = 66 -> Forth(s_vterms[id].cursor_y, N, VTERM_ROWS - 1)
                       [] OTHER -> s_vterms[id].cursor_y
               /\ s_vterms'[id].cursor_x =
                     CASE final = 67 -> Forth(s_vterms[id].cursor_x, N, VTERM_COLS - 1)
                       [] final = 68 -> Back(s_vterms[id].cursor_x, N)
                       [] OTHER -> s_vterms[id].cursor_x
       IN \A final \in MoveFinals :
             /\ \A n \in MoveCounts :
                   WroteFromNormal(MoveBy(n, final)) /\ Inside(call'.id)
                     => Moved(call'.id, final, IF n < 1 THEN 1 ELSE n)
             /\ WroteFromNormal(MoveOmitted(final)) /\ Inside(call'.id)
                   => Moved(call'.id, final, 1)]_vars

(***************************************************************************)
(* Batched writes against byte-by-byte writes and against split writes.    *)
(***************************************************************************)
MaxBatchCalls == 2

BatchVTs == {0, 1}

\* COLS + 1 letters: the text wraps, and scrolls when begun on the last row
LongText == [i \in 1 .. (VTERM_COLS + 1) |-> 64 + i]

BatchInputs ==
    { <<>>,
      LongText,
      <<65, 10, 66, 10, 10, 67>>,                      \* A \n B \n \n C
      <<9, 65, 8, 13, 66>>,                            \* \t A \b \r B
      CsiSeq(<<50, 59, 51>>, 72) \o <<88>>,            \* ESC [ 2 ; 3 H X
      BrightRed \o <<88>> \o SgrReset \o <<89>>,       \* ESC [ 1 ; 31 m X ESC [ 0 m Y
      <<88>> \o StatusQuery \o <<89>>,                 \* X ESC [ 6 n Y
      <<65, ESC, 77, 66, ESC, 69, 67, ESC, 68>>,       \* A ESC M B ESC E C ESC D
      <<65, 66>> \o ClearScreen \o <<67>>,             \* A B ESC [ 2 J C
      <<65, 66, 13>> \o CsiSeq(<<>>, 75) \o <<67>>,    \* A B \r ESC [ K C
      <<65, ESC, 90, ESC, 91, 52>>,                    \* A ESC Z ESC [ 4   (unfinished)
      <<49, 109, 88>> }                                \* 1 m X

\* everything of the world but the dirty marks
Observable(W) ==
    [mem |-> W.mem, active |-> W.active, fault |-> W.fault,
     vts |-> [i \in VTs |-> [W.vts[i] EXCEPT !.dirty = 0]]]

\* vterm_putchar(id, data[p]), vterm_putchar(id, data[p + 1]), ...
RECURSIVE PutcharEach(_, _, _, _)
PutcharEach(W, id, data, p) ==
    IF p > Len(data) \/ W.fault # "none" THEN W
    ELSE PutcharEach(vterm_putchar(W, 1, id, data[p]), id, data, p + 1)

\* vterm_write of the first k bytes, then vterm_write of the rest
WriteSplit(W, id, data, k) ==
    LET Second(W1) == IF W1.fault # "none" THEN W1
                      ELSE vterm_write(W1, 1, id, SubSeq(data, k + 1, Len(data)))
    IN Second(vterm_write(W, 1, id, SubSeq(data, 1, k)))

\* vterm_write(id, data, len); the record of the call keeps what the same
\* bytes give from the same state through vterm_putchar and through two
\* writes, for every split point
BatchWriteCall(id, data) ==
    /\ Serial
    /\ SetWorld(vterm_write(World, 1, id, data))
    /\ ref' = vterm_write(ref, 1, id, data)
    /\ call' = [op |-> "write", id |-> id, data |-> data, pre |-> Pre(id),
                cb |-> write_callbacks(World, id),
                each |-> Observable(PutcharEach(World, id, data, 1)),
                split |-> {WriteSplit(World, id, data, k) : k \in 0 .. Len(data)}]
    /\ budget' = budget - 1
    /\ UNCHANGED <<s_esc_buf, s_esc_start, s_task_map, s_on_switch_cb, s_escape, tick, ctx, kbd>>

InitBatch == InitWith(MaxBatchCalls)

NextBatch == \E id \in BatchVTs, data \in BatchInputs : BatchWriteCall(id, data)

SpecBatch == InitBatch /\ [][NextBatch]_vars

\* C27: vterm_write(id, data, len) leaves every session (grid, cursor,
\* attribute, parser state) and every input queue exactly as the calls
\* vterm_putchar(id, data[i]), i = 0 .. len-1 in order, leave them.
C27_WriteIsPutcharEach ==
    call.op = "write" => Observable(World) = call.each

\* 1 m X was written to session 1 whose parser had been left inside
\* ESC [ 4 by the write before: the sequence read is ESC [ 41 m, and the X
\* is stored after "AZ" on a red background
C27_Witness ==
    /\ call.op = "write" /\ call.id = 1 /\ call.data = <<49, 109, 88>>
    /\ call.pre.escape_state = 2
    /\ s_vterms[1].escape_state = 0 /\ fault = "none"
    /\ mem[1][2] = [ch |-> 88, attr |-> VTERM_ATTR(VTERM_WHITE, 1)]

\* C28: writing a byte sequence in one vterm_write call and writing its two
\* parts in two consecutive calls leave the same state, for every split
\* point: an escape sequence split across calls is read as if unsplit.
C28_SplitWriteSame ==
    call.op = "write" => call.split = {World}

\* the text of COLS + 1 letters was written to session 0 with the cursor in
\* column 1 of the last row: the grid scrolled, and each of its COLS + 2
\* splits agrees
C28_Witness ==
    /\ call.op = "write" /\ call.id = 0 /\ call.data = LongText
    /\ call.pre.view.cursor_y = VTERM_ROWS - 1 /\ call.pre.view.cursor_x = 1
    /\ s_vterms[0].cursor_y = VTERM_ROWS - 1 /\ s_vterms[0].cursor_x = 2
    /\ mem[IRAM][(VTERM_ROWS - 1) * VTERM_COLS].ch = 64 + VTERM_COLS
    /\ Cardinality(call.split) = 1

(***************************************************************************)
(* Sequences the parser does not support: ESC followed by a byte that      *)
(* starts no sequence, and DEC private sequences ESC [ ? ... letter.       *)
(***************************************************************************)
MaxQuietCalls == 2

\* ESC b
TwoByte(b) == <<ESC, b>>

\* 'c' (reset), '7' (save cursor), 'H' (set tab), line feed, BEL and ESC
UnsupportedBytes == {99, 55, 72, 10, 7, ESC}

\* ESC [ ? params final
PrivateSeq(params, final) == CsiSeq(<<63>> \o params, final)

\* more parameter bytes than escape_buf holds
LongParams == [i \in 1 .. (ESCAPE_BUF_SIZE + 3) |-> 49]

\* ?25h ?25l ?h ?6n ?2J ?31m ?2;3H ?1L ?1M ?2K, each a command when the '?'
\* is left out, and one too long for escape_buf
PrivateInputs ==
    { PrivateSeq(<<50, 53>>, 104), PrivateSeq(<<50, 53>>, 108), PrivateSeq(<<>>, 104),
      PrivateSeq(<<54>>, 110), PrivateSeq(<<50>>, 74), PrivateSeq(<<51, 49>>, 109),
      PrivateSeq(<<50, 59, 51>>, 72), PrivateSeq(<<49>>, 76), PrivateSeq(<<49>>, 77),
      PrivateSeq(<<50>>, 75), PrivateSeq(LongParams, 104) }

\* ESC [ ? 2 5 h X
PrivateThenX == PrivateSeq(<<50, 53>>, 104) \o <<88>>

\* text, a colour and a cursor position for the sequences to find
QuietSetups == { <<65, 10, 66>>, Red \o <<67>>, <<68, 10, 10>> }

QuietInputs ==
    {TwoByte(b) : b \in UnsupportedBytes} \cup PrivateInputs \cup {PrivateThenX}
      \cup QuietSetups

InitQuiet == InitWith(MaxQuietCalls)

NextQuiet == \E id \in CsiVTs, data \in QuietInputs : WriteCall(id, data)

SpecQuiet == InitQuiet /\ [][NextQuiet]_vars

\* the step left every grid, and the cursor and attribute of every session, alone
ScreenKept ==
    /\ mem' = mem
    /\ \A i \in VTs : /\ s_vterms'[i].cells = s_vterms[i].cells
                      /\ s_vterms'[i].cursor_x = s_vterms[i].cursor_x
                      /\ s_vterms'[i].cursor_y = s_vterms[i].cursor_y
                      /\ s_vterms'[i].current_attr = s_vterms[i].current_attr

\* the step left every input queue alone
QueuesKept == \A i \in VTs : s_vterms'[i].input_queue = s_vterms[i].input_queue

\* C31: ESC followed by any byte other than '[', 'D', 'M', 'E' is a no-op:
\* after both bytes have been written the session's grid, cursor and current
\* attribute are unchanged and the parser is back in its normal state.
C31_UnsupportedIsNoOp ==
    [][\A b \in UnsupportedBytes :
          WroteFromNormal(TwoByte(b))
            => ScreenKept /\ s_vterms'[call'.id].escape_state = 0]_vars

\* what the code does: the ESC is dropped and the second byte is then
\* written as if it had come alone; a second ESC is dropped as well
C31_SecondByteWritten ==
    [][\A b \in UnsupportedBytes :
          WroteFromNormal(TwoByte(b))
            => /\ s_vterms'[call'.id].escape_state = 0
               /\ IF b = ESC THEN ScreenKept
                  ELSE /\ mem' = vterm_write(World, 1, call'.id, <<b>>).mem
                       /\ s_vterms' = vterm_write(World, 1, call'.id, <<b>>).vts]_vars

\* C33: a CSI sequence whose first parameter byte is '?' leaves the grids,
\* cursors, attributes and every input queue unchanged, whatever its final
\* letter, and the parser is in its normal state at that letter: a printable
\* byte after it is stored at the cursor.
C33_PrivateIgnored ==
    [][/\ \A data \in PrivateInputs :
             WroteFromNormal(data)
               => ScreenKept /\ QueuesKept /\ s_vterms'[call'.id].escape_state = 0
       /\ WroteFromNormal(PrivateThenX)
            => /\ Landed(call'.id) = [ch |-> 88, attr |-> s_vterms[call'.id].current_attr]
               /\ OthersKept(call'.id)
               /\ QueuesKept
               /\ s_vterms'[call'.id].escape_state = 0]_vars

\* ESC [ ? 2 ; 3 H was written to session 1, not active, whose cursor was on
\* row 2 after "D\n\n" and whose grid showed the D: nothing moved
C33_Witness ==
    /\ call.op = "write" /\ call.id = 1 /\ fault = "none"
    /\ call.data = PrivateSeq(<<50, 59, 51>>, 72)
    /\ call.pre.escape_state = 0
    /\ call.pre.view.cursor_y = 2 /\ call.pre.view.grid[0].ch = 68
    /\ s_vterms[1].cursor_y = 2 /\ s_vterms[1].cursor_x = 0
    /\ mem[1][0].ch = 68
    /\ s_vterms[1].escape_state = 0
    /\ \A i \in VTs : s_vterms[i].input_queue = <<>>

(***************************************************************************)
(* SGR sequences with the extended-colour groups 38;5;N, 38;2;R;G;B,       *)
(* 48;5;N and 48;2;R;G;B.                                                  *)
(***************************************************************************)
MaxSgrCalls == 2

\* the codes as decimal numbers with ';' between them
RECURSIVE JoinCodes(_)
JoinCodes(codes) ==
    IF codes = <<>> THEN <<>>
    ELSE IF Len(codes) = 1 THEN DecStr(codes[1])
    ELSE DecStr(codes[1]) \o <<59>> \o JoinCodes(Tail(codes))

\* ESC [ codes m
SgrSeq(codes) == CsiSeq(JoinCodes(codes), 109)

\* a sequence with one group, and the codes that stand before and after it
Grouped(before, group, after) ==
    [with |-> SgrSeq(before \o group \o after), rest |-> before \o after]

\* the four groups with sub-parameters that are codes of their own when
\* read apart (31 red, 41 red background, 0 reset, 1 bright, 5 and 2 nothing)
ExtendedGroups ==
    { <<38, 5, 31>>, <<38, 2, 31, 42, 1>>, <<48, 5, 41>>, <<48, 2, 0, 31, 41>> }

ExtendedCases ==
    {Grouped(<<>>, g, <<>>) : g \in ExtendedGroups}
      \cup {Grouped(<<>>, g, <<32>>) : g \in ExtendedGroups}
      \cup { Grouped(<<1>>, <<38, 2, 31, 42, 1>>, <<34>>),
             Grouped(<<41>>, <<48, 5, 42>>, <<33>>),
             Grouped(<<0>>, <<38, 5, 31>>, <<>>),
             Grouped(<<44>>, <<38, 5, 0>>, <<>>) }

\* colours for the sequences to find: red, bright red on blue, green background
SgrSetups == { SgrSeq(<<31>>), SgrSeq(<<1, 31, 44>>), SgrSeq(<<42>>) \o <<65>> }

SgrExtInputs == {c.with : c \in ExtendedCases} \cup SgrSetups

InitSgrExt == InitWith(MaxSgrCalls)

NextSgrExt == \E id \in CsiVTs, data \in SgrExtInputs : WriteCall(id, data)

SpecSgrExt == InitSgrExt /\ [][NextSgrExt]_vars

\* C32: an extended-colour group is consumed with its sub-parameters and has
\* no effect: the attribute after the sequence is the one the sequence
\* without the group gives (the attribute as it was when the group is all
\* the sequence holds), no cell, cursor or other session changes, and the
\* parser is in its normal state.
C32_ExtendedColourSkipped ==
    [][\A c \in ExtendedCases :
          WroteFromNormal(c.with)
            => /\ s_vterms'[call'.id].current_attr =
                     IF c.rest = <<>> THEN s_vterms[call'.id].current_attr
                     ELSE vterm_write(World, 1, call'.id, SgrSeq(c.rest))
                            .vts[call'.id].current_attr
               /\ mem' = mem
               /\ \A i \in VTs :
                     s_vterms'[i] = IF i = call'.id
                                    THEN [s_vterms[i] EXCEPT
                                            !.current_attr = s_vterms'[i].current_attr,
                                            !.dirty = 1]
                                    ELSE s_vterms[i]]_vars

\* session 1 had bright red on blue; ESC [ 38;5;31 ; 32 m made the foreground
\* green, without the bright bit, and left the background blue
C32_Witness ==
    /\ call.op = "write" /\ call.id = 1 /\ fault = "none"
    /\ call.data = SgrSeq(<<38, 5, 31, 32>>)
    /\ call.pre.escape_state = 0
    /\ call.pre.view.current_attr = VTERM_ATTR(9, 4)
    /\ s_vterms[1].current_attr = VTERM_ATTR(2, 4)

\* session 0 had red on black; ESC [ 38;5;31 m left it so
C32_KeptWitness ==
    /\ call.op = "write" /\ call.id = 0 /\ fault = "none"
    /\ call.data = SgrSeq(<<38, 5, 31>>)
    /\ call.pre.view.current_attr = VTERM_ATTR(1, 0)
    /\ s_vterms[0].current_attr = VTERM_ATTR(1, 0)

(***************************************************************************)
(* A blocked reader: context 1 waits in vterm_getchar on an empty queue    *)
(* while context 2 makes whole calls, which need the mutexes they take to  *)
(* be free.                                                                *)
(***************************************************************************)
MaxBlockedCalls == 3

Reader == MinOf(Ctx)
BlockedVTs == {0, 1}
BlockedTimeouts == {-1, 10, 20}
BlockedKeys == { <<120>>, <<ESC, 79, 81>> }

\* the reader waits in xQueueReceive
Blocked == ctx[Reader].pc = "getchar"

\* context 2 may make a call that takes the mutexes of the sessions ids
\* while the reader waits
Aside(ids) ==
    /\ fault = "none"
    /\ Blocked
    /\ ctx[2].pc = "idle"
    /\ \A i \in ids : s_vterms[i].mutex = 0

AsideWrite(id, data) ==
    /\ Aside({id})
    /\ budget > 0
    /\ SetWorld(vterm_write(World, 2, id, data))
    /\ ref' = vterm_write(ref, 2, id, data)
    /\ call' = [op |-> "write", id |-> id, data |-> data, pre |-> Pre(id),
                cb |-> write_callbacks(World, id)]
    /\ budget' = budget - 1
    /\ UNCHANGED <<s_esc_buf, s_esc_start, s_task_map, s_on_switch_cb, s_escape, tick, ctx, kbd>>

AsideClear(id) ==
    /\ Aside({id})
    /\ budget > 0
    /\ SetWorld(vterm_clear(World, 2, id))
    /\ ref' = vterm_clear(ref, 2, id)
    /\ call' = [op |-> "clear", id |-> id, cb |-> <<>>]
    /\ budget' = budget - 1
    /\ UNCHANGED <<s_esc_buf, s_esc_start, s_task_map, s_on_switch_cb, s_escape, tick, ctx, kbd>>

AsideSwitch(vt_id) ==
    /\ Aside({s_active_vt, vt_id})
    /\ budget > 0
    /\ SetWorld(vterm_switch(World, vt_id))
    /\ call' = [op |-> "switch", id |-> vt_id, cb |-> <<>>]
    /\ budget' = budget - 1
    /\ UNCHANGED <<s_esc_buf, s_esc_start, s_task_map, s_on_switch_cb, s_escape, tick, ctx, ref, kbd>>

\* vterm_input_feed of the first byte of a key sequence; a hotkey switches
AsideFeedFirst(script) ==
    /\ Aside(VTs)
    /\ budget > 0
    /\ kbd.pos = Len(kbd.script)
    /\ Feed(script, 0, s_esc_buf = <<>>, 0, <<>>, s_esc_buf)
    /\ budget' = budget - 1

AsideFeedNext ==
    /\ Aside(VTs)
    /\ kbd.pos < Len(kbd.script)
    /\ Feed(kbd.script, kbd.pos, kbd.clean, kbd.sent, kbd.log, kbd.kept)
    /\ UNCHANGED budget

\* vterm_get_current_vt() by a task that is not the reader
AsideCurrentVt(task) ==
    /\ Aside({})
    /\ budget > 0
    /\ call' = [op |-> "get_current_vt", task |-> task,
                r |-> vterm_get_current_vt(s_task_map, s_active_vt, task)]
    /\ budget' = budget - 1
    /\ UNCHANGED <<mem, s_vterms, s_active_vt, fault, s_esc_buf, s_esc_start, s_task_map,
                   s_on_switch_cb, s_escape, tick, ctx, ref, kbd>>

InitBlocked == InitWith(MaxBlockedCalls)

NextBlocked ==
    \/ \E N \in BlockedVTs, t \in BlockedTimeouts : GetcharCall(Reader, N, t)
    \/ GetcharWake(Reader)
    \/ GetcharTimeout(Reader)
    \/ \E id \in BlockedVTs : SendInputCall(id, 65)
    \/ \E id \in BlockedVTs : AsideWrite(id, <<66>>)
    \/ \E id \in BlockedVTs : AsideClear(id)
    \/ \E id \in BlockedVTs : AsideSwitch(id)
    \/ \E k \in BlockedKeys : AsideFeedFirst(k)
    \/ AsideFeedNext
    \/ AsideCurrentVt(2)
    \/ Tick

SpecBlocked == InitBlocked /\ [][NextBlocked]_vars

\* C34: a context blocked in vterm_getchar on the empty queue of session N
\* holds no session mutex (and every session mutex is free whenever no other
\* call is running); a step of another context leaves it blocked, whatever
\* the call; and the step that releases it either finds a byte in that queue
\* and returns the oldest one, or finds the queue empty with the timeout,
\* which is not negative, run out, and returns -1.
C34_BlockedReaderHoldsNothing ==
    [][LET N == ctx[Reader].id
           q == s_vterms[ctx[Reader].id].input_queue
           Released == ctx'[Reader].pc = "idle"
       IN Blocked =>
            /\ HeldBy(Reader) = {}
            /\ \A i \in VTs : s_vterms[i].mutex = 0
            /\ Released =>
                  /\ call'.op = "getchar" /\ call'.id = N /\ call'.blocked
                  /\ \/ /\ q # <<>>
                        /\ call'.r = UnsignedChar(Head(q))
                        /\ s_vterms'[N].input_queue = Tail(q)
                     \/ /\ q = <<>>
                        /\ ctx[Reader].timeout >= 0
                        /\ tick - ctx[Reader].t0 >= pdMS_TO_TICKS(ctx[Reader].timeout)
                        /\ call'.r = -1
            /\ ~Released =>
                  /\ ctx'[Reader].pc = "getchar"
                  /\ ctx'[Reader].id = N
                  /\ ctx'[Reader].t0 = ctx[Reader].t0
                  /\ ctx'[Reader].timeout = ctx[Reader].timeout]_vars

\* while the reader waits for ever on session 1, session 1 was written to
\* and the terminal was switched to it: the reader still waits
C34_Witness ==
    /\ Blocked /\ ctx[Reader].id = 1 /\ ctx[Reader].timeout = -1
    /\ call.op = "switch" /\ call.id = 1 /\ s_active_vt = 1
    /\ s_vterms[1].cells = IRAM
    /\ mem[IRAM][0].ch = 66
    /\ s_vterms[1].input_queue = <<>>
    /\ budget = MaxBlockedCalls - 3

\* the reader waited on session 0, x was fed, and the reader got it
C34_ReleasedWitness ==
    /\ call.op = "getchar" /\ call.id = 0 /\ call.blocked /\ call.arrived = FALSE
    /\ call.r = 120
    /\ ~Blocked
    /\ s_vterms[0].input_queue = <<>>


(***************************************************************************)
(* The non-tiered variant: the second implementation in src/vterm.c.  Each *)
(* session keeps its grid inside its own vterm_t; the escape parser is     *)
(* three file-level statics, s_escape_state, s_escape_buf and              *)
(* s_escape_len, read and written by every session's writes under that     *)
(* session's own mutex.  vterm_scroll, vterm_putchar_internal,             *)
(* vterm_clear_internal and the J H f A B C D K commands have the code of  *)
(* the tiered variant.                                                     *)
(***************************************************************************)
MaxSharedCalls == 3

\* a world together with the parser statics
Shared(W, esc) ==
    [mem |-> W.mem, vts |-> W.vts, active |-> W.active, fault |-> W.fault,
     ovf |-> W.ovf, esc |-> esc]

Unshared(F) ==
    [mem |-> F.mem, vts |-> F.vts, active |-> F.active, fault |-> F.fault,
     ovf |-> F.ovf]

\* one iteration of the while (*p) loop: 38 and 48 are codes like any other
\* unsupported one, their sub-parameters are not skipped
sgr_step_flat(attr, s, p, bright) ==
    LET Step(r) == IF r.num = 38 \/ r.num = 48
                   THEN [attr |-> attr, p |-> r.p, bright |-> bright]
                   ELSE sgr_step(attr, s, p, bright)
    IN Step(sgr_parse_num(s, p))

RECURSIVE sgr_loop_flat(_, _, _, _)
sgr_loop_flat(attr, s, p, bright) ==
    LET Continue(r) == IF r.p = p THEN [attr |-> r.attr, hang |-> TRUE]
                       ELSE sgr_loop_flat(r.attr, s, r.p, r.bright)
    IN IF ChAt(s, p) = 0 THEN [attr |-> attr, hang |-> FALSE]
       ELSE Continue(sgr_step_flat(attr, s, p, bright))

vterm_apply_sgr_flat(W, id, params) ==
    LET reset == ChAt(params, 1) = 0
                 \/ (ChAt(params, 1) = 48 /\ (ChAt(params, 2) = 0 \/ ChAt(params, 2) = 59))
        SkipSemi(q) == IF reset /\ ChAt(params, q) = 59 THEN q + 1 ELSE q
        Done(r) == [W EXCEPT !.vts[id].current_attr = r.attr,
                             !.fault = IF r.hang THEN "hang" ELSE @]
    IN Done(sgr_loop_flat(IF reset THEN VTERM_DEFAULT_ATTR ELSE W.vts[id].current_attr,
                          params,
                          SkipSemi(IF reset /\ ChAt(params, 1) = 48 THEN 2 ELSE 1),
                          0))

\* case 'n': ESC [ 6 n reports the cursor, ESC [ 5 n answers ESC [ 0 n, both
\* into the queue of the active session
csi_status_report_flat(W, id, params) ==
    IF params = <<53>> THEN SendAll(W, W.active, <<ESC, 91, 48, 110>>)
    ELSE csi_status_report(W, id, params)

\* the switch (c): there is no X, L or M command
csi_dispatch_flat(W, id, c, params) ==
    CASE c = 109 -> vterm_apply_sgr_flat(W, id, params)
      [] c = 110 -> csi_status_report_flat(W, id, params)
      [] c = 88 \/ c = 76 \/ c = 77 -> W
      [] OTHER -> csi_dispatch(W, id, c, params)

\* returns the world and the function's result, as vterm_handle_escape does;
\* the parser state it reads and writes is F.esc, whichever session id is
vterm_handle_escape_flat(F, id, c) ==
    LET buf == IF Len(F.esc.buf) < ESCAPE_BUF_SIZE - 1
               THEN Append(F.esc.buf, c) ELSE F.esc.buf
        Command(params) ==
            [csi_dispatch_flat([F EXCEPT !.ovf = @ \/ (c \notin {88, 76, 77}
                                                        /\ csi_overflows(F, id, c, params))],
                               id, c, params)
               EXCEPT !.esc = NoEscape]
    IN CASE F.esc.state = 0 ->
              IF c = ESC THEN [W |-> [F EXCEPT !.esc = [state |-> 1, buf |-> <<>>]], r |-> 1]
              ELSE [W |-> F, r |-> 0]
         [] F.esc.state = 1 ->
              IF c = 91 THEN [W |-> [F EXCEPT !.esc.state = 2], r |-> 1]
              ELSE [W |-> [F EXCEPT !.esc.state = 0], r |-> 0]
         [] OTHER ->
              IF IsLetter(c)
              THEN [W |-> Command(CStr(SubSeq(buf, 1, Len(buf) - 1))), r |-> 1]
              ELSE [W |-> [F EXCEPT !.esc.buf = buf], r |-> 1]

\* for (i = 0; i < len; i++) if (!vterm_handle_escape(vt, data[i])) putchar_internal
RECURSIVE write_loop_flat(_, _, _, _)
write_loop_flat(F, id, data, p) ==
    LET Byte(r) == IF r.r = 0
                   THEN [vterm_putchar_internal(r.W, id, data[p]) EXCEPT !.vts[id].dirty = 1]
                   ELSE r.W
    IN IF p > Len(data) \/ F.fault # "none" THEN F
       ELSE write_loop_flat(Byte(vterm_handle_escape_flat(F, id, data[p])), id, data, p + 1)

vterm_write_flat(F, self, id, data) ==
    IF ~ValidVt(id) THEN F
    ELSE Unlock(write_loop_flat([F EXCEPT !.vts[id].mutex = self], id, data, 1), id)

\* the same write when the session written to has a parser of its own, kept
\* in its escape_state and escape_buf
vterm_write_own(W, self, id, data) ==
    LET Keep(F) == [Unshared(F) EXCEPT !.vts[id].escape_state = F.esc.state,
                                       !.vts[id].escape_buf = F.esc.buf]
    IN IF ~ValidVt(id) THEN W
       ELSE Keep(vterm_write_flat(Shared(W, [state |-> W.vts[id].escape_state,
                                             buf |-> W.vts[id].escape_buf]),
                                  self, id, data))

\* vterm_write of the non-tiered variant; ref follows the same calls with a
\* parser for each session
FlatWriteCall(id, data) ==
    /\ Serial
    /\ LET F == vterm_write_flat(Shared(World, s_escape), 1, id, data)
       IN /\ SetWorld(Unshared(F))
          /\ s_escape' = F.esc
    /\ ref' = vterm_write_own(ref, 1, id, data)
    /\ call' = [op |-> "write", id |-> id, data |-> data, pre |-> Pre(id), cb |-> <<>>]
    /\ budget' = budget - 1
    /\ UNCHANGED <<s_esc_buf, s_esc_start, s_task_map, s_on_switch_cb, tick, ctx, kbd>>

SharedVTs == {0, 1}

\* a sequence cut after ESC [ 3, its completion followed by a character, a
\* lone character, a lone ESC, a status probe and a whole sequence
SharedInputs ==
    { <<ESC, 91, 51>>, <<49, 109, 88>>, <<90>>, <<ESC>>, CsiSeq(<<53>>, 110),
      CsiSeq(<<52, 50>>, 109) }

\* what vterm_init of the non-tiered variant leaves: every session blank in
\* its own grid, the parser at rest
flat_vterm_init ==
    [vterm_init EXCEPT !.vts = [i \in VTs |-> vterm_t_init(i)]]

InitShared ==
    /\ mem = flat_vterm_init.mem
    /\ s_vterms = flat_vterm_init.vts
    /\ s_active_vt = flat_vterm_init.active
    /\ fault = flat_vterm_init.fault
    /\ s_esc_buf = <<>>
    /\ s_esc_start = 0
    /\ s_task_map = task_map_init
    /\ s_on_switch_cb = NULL
    /\ s_escape = NoEscape
    /\ tick = 0
    /\ ctx = [c \in Ctx |-> Idle]
    /\ ref = flat_vterm_init
    /\ call = NoCall
    /\ kbd = NoKey
    /\ budget = MaxSharedCalls

NextShared == \E id \in SharedVTs, data \in SharedInputs : FlatWriteCall(id, data)

SpecShared == InitShared /\ [][NextShared]_vars

\* C35 (as stated, non-tiered variant): every session shows what the bytes
\* written to it give when parsed on their own, however writes to other
\* sessions were interleaved; in particular a sequence received in part is
\* completed by the session's next write.
C35_WritesIsolated ==
    \A i \in VTs : LogicalView(World, i) = LogicalView(ref, i)

\* C35 (tiered variant): a write, putchar or clear to session i leaves every
\* other session's grid, cursor, attribute and parser state as they were.
C35_TieredOthersKept ==
    [][(budget' # budget /\ call'.op \in {"write", "putchar", "clear"})
         => \A j \in VTs \ {call'.id} :
               /\ LogicalView(World, j)' = LogicalView(World, j)
               /\ s_vterms'[j].escape_state = s_vterms[j].escape_state
               /\ s_vterms'[j].escape_buf = s_vterms[j].escape_buf]_vars


(***************************************************************************)
(* Insert and delete lines (CSI n L, CSI n M) on a filled screen.          *)
(***************************************************************************)
MaxLineCalls == 2

\* a letter in column 0 of every row: A, B, C, ...
LinesFill == [i \in 1 .. (2 * VTERM_ROWS - 1) |-> IF i % 2 = 1 THEN 65 + (i \div 2) ELSE 10]

\* red letters on every row, then the cursor to row r (from 1), column 2
LinesSetup(r) == Red \o LinesFill \o CsiSeq(DecStr(r) \o <<59, 50>>, 72)

\* -1 stands for an omitted count
LineCounts == {-1, 0, 1, 2, VTERM_ROWS, VTERM_ROWS + 2}
LineFinals == {76, 77}
LineSeq(n, final) == CsiSeq(IF n < 0 THEN <<>> ELSE DecStr(n), final)

LineInputs ==
    { LinesSetup(r) : r \in 1 .. VTERM_ROWS }
      \cup { LineSeq(n, final) : n \in LineCounts, final \in LineFinals }

InitLines == InitWith(MaxLineCalls)

NextLines == \E id \in CsiVTs, data \in LineInputs : WriteCall(id, data)

SpecLines == InitLines /\ [][NextLines]_vars

\* C36: CSI n L / CSI n M at cursor row r insert / delete
\* m = min(max(n, 1), ROWS - r) lines.  Rows above r, the cursor and the
\* attribute are unchanged; L moves the old rows r .. ROWS-1-m down by m and
\* blanks rows r .. r+m-1 with the default attribute; M moves the old rows
\* r+m .. ROWS-1 up by m and blanks the last m rows; no other session changes.
C36_InsertDeleteLines ==
    [][\A final \in LineFinals, n \in LineCounts :
         WroteFromNormal(LineSeq(n, final))
           => LET id == call'.id
                  r == s_vterms[id].cursor_y
                  N == IF n < 1 THEN 1 ELSE n
                  m == IF N > VTERM_ROWS - r THEN VTERM_ROWS - r ELSE N
              IN /\ s_vterms'[id].cursor_x = s_vterms[id].cursor_x
                 /\ s_vterms'[id].cursor_y = r
                 /\ s_vterms'[id].current_attr = s_vterms[id].current_attr
                 /\ \A j \in VTs \ {id} : LogicalView(World, j)' = LogicalView(World, j)
                 /\ \A x \in 0 .. (VTERM_COLS - 1), y \in 0 .. (VTERM_ROWS - 1) :
                       CellAfter(id, x, y) =
                          IF y < r THEN CellBefore(id, x, y)
                          ELSE IF final = 76
                          THEN (IF y < r + m THEN Blank ELSE CellBefore(id, x, y - m))
                          ELSE (IF y < VTERM_ROWS - m THEN CellBefore(id, x, y + m)
                                ELSE Blank)]_vars

\* two lines were inserted at row 0 of the non-active session 1, filled with
\* red letters: rows 0 and 1 are blank in the default attribute, the red A
\* of row 0 is on row 2, and the cursor is where it was
C36_Witness ==
    /\ call.op = "write" /\ call.id = 1 /\ call.data = LineSeq(2, 76)
    /\ call.pre.view.cursor_y = 0 /\ call.pre.view.cursor_x = 1
    /\ call.pre.view.grid[0] = [ch |-> 65, attr |-> VTERM_ATTR(1, 0)]
    /\ mem[s_vterms[1].cells][0] = Blank
    /\ mem[s_vterms[1].cells][VTERM_COLS] = Blank
    /\ mem[s_vterms[1].cells][2 * VTERM_COLS] = [ch |-> 65, attr |-> VTERM_ATTR(1, 0)]
    /\ s_vterms[1].cursor_x = 1 /\ s_vterms[1].cursor_y = 0
    /\ fault = "none"

\* one line was deleted at row 1 of the active session 0: row 0 keeps its A,
\* row 1 shows the C of row 2, the last row is blank
C36_DeleteWitness ==
    /\ call.op = "write" /\ call.id = 0 /\ call.data = LineSeq(-1, 77)
    /\ call.pre.view.cursor_y = 1
    /\ call.pre.view.grid[2 * VTERM_COLS].ch = 67
    /\ mem[s_vterms[0].cells][0].ch = 65
    /\ mem[s_vterms[0].cells][VTERM_COLS].ch = 67
    /\ mem[s_vterms[0].cells][(VTERM_ROWS - 1) * VTERM_COLS] = Blank
    /\ fault = "none"


(***************************************************************************)
(* Tabs on a filled screen.                                                *)
(***************************************************************************)
MaxTabCalls == 2

\* columns (from 1) the tab starts at: the first, one inside a tab field, the
\* last before a tab stop, a tab stop, the last of the row
TabCols == {1, 3, TAB_WIDTH, TAB_WIDTH + 1, VTERM_COLS}
TabRows == {1, VTERM_ROWS}

\* every cell but the last holds a distinct character; then white on green
\* and the cursor to row r, column c (both from 1)
TabSetup(r, c) ==
    Text(GridSize - 1) \o CsiSeq(<<52, 50>>, 109)
      \o CsiSeq(DecStr(r) \o <<59>> \o DecStr(c), 72)

TabInputs == { TabSetup(r, c) : r \in TabRows, c \in TabCols } \cup { <<9>> }

InitTab == InitWith(MaxTabCalls)

NextTab == \E id \in CsiVTs, data \in TabInputs : WriteCall(id, data)

SpecTab == InitTab /\ [][NextTab]_vars

\* C37: a tab written in NORMAL state at column x of row y stores spaces in
\* the current attribute in the cells from x up to, not including, the
\* smaller of the next multiple of 8 and COLS, and changes no other cell; the
\* cursor ends at that multiple of 8 on row y, or, when the row ends first,
\* at column 0 of the next row, the grid scrolling one row when y was the
\* last row.
C37_Tab ==
    [][WroteFromNormal(<<9>>)
         => LET id == call'.id
                x == s_vterms[id].cursor_x
                y == s_vterms[id].cursor_y
                T == ((x \div TAB_WIDTH) + 1) * TAB_WIDTH
                E == IF T < VTERM_COLS THEN T ELSE VTERM_COLS
                wrap == T >= VTERM_COLS
                s == IF wrap /\ y = VTERM_ROWS - 1 THEN 1 ELSE 0
                Tabbed(cx, cy) ==
                    IF cy = y /\ cx >= x /\ cx < E
                    THEN [ch |-> 32, attr |-> s_vterms[id].current_attr]
                    ELSE CellBefore(id, cx, cy)
            IN /\ s_vterms'[id].cursor_x = IF wrap THEN 0 ELSE T
               /\ s_vterms'[id].cursor_y = IF wrap THEN y + 1 - s ELSE y
               /\ s_vterms'[id].current_attr = s_vterms[id].current_attr
               /\ \A j \in VTs \ {id} : LogicalView(World, j)' = LogicalView(World, j)
               /\ \A cx \in 0 .. (VTERM_COLS - 1) :
                     /\ \A cy \in s .. (VTERM_ROWS - 1) :
                           CellAfter(id, cx, cy - s) = Tabbed(cx, cy)
                     /\ s = 1 => CellAfter(id, cx, VTERM_ROWS - 1) = Blank]_vars

\* a tab at column 2 of the first row of the non-active session 1: columns
\* 2 .. 7 hold spaces on green, columns 1 and 8 their characters, and the
\* cursor is at column 8
C37_Witness ==
    /\ call.op = "write" /\ call.id = 1 /\ call.data = <<9>>
    /\ call.pre.escape_state = 0
    /\ call.pre.view.cursor_x = 2 /\ call.pre.view.cursor_y = 0
    /\ \A cx \in 2 .. (TAB_WIDTH - 1) :
          mem[s_vterms[1].cells][cx] = [ch |-> 32, attr |-> VTERM_ATTR(VTERM_WHITE, 2)]
    /\ mem[s_vterms[1].cells][1] = [ch |-> 34, attr |-> VTERM_DEFAULT_ATTR]
    /\ mem[s_vterms[1].cells][TAB_WIDTH].ch = 33 + TAB_WIDTH
    /\ s_vterms[1].cursor_x = TAB_WIDTH /\ s_vterms[1].cursor_y = 0
    /\ fault = "none"

\* a tab at the last column of the last row of the active session 0: the
\* grid scrolled, the space is at the end of the row above the blank last
\* row, and the cursor is at column 0 of the last row
C37_WrapWitness ==
    /\ call.op = "write" /\ call.id = 0 /\ call.data = <<9>>
    /\ call.pre.escape_state = 0
    /\ call.pre.view.cursor_x = VTERM_COLS - 1
    /\ call.pre.view.cursor_y = VTERM_ROWS - 1
    /\ mem[s_vterms[0].cells][(VTERM_ROWS - 1) * VTERM_COLS - 1]
          = [ch |-> 32, attr |-> VTERM_ATTR(VTERM_WHITE, 2)]
    /\ mem[s_vterms[0].cells][0].ch = 33 + VTERM_COLS
    /\ mem[s_vterms[0].cells][(VTERM_ROWS - 1) * VTERM_COLS] = Blank
    /\ s_vterms[0].cursor_x = 0 /\ s_vterms[0].cursor_y = VTERM_ROWS - 1
    /\ fault = "none"

====
